---- MODULE Spec2Model ----
(***************************************************************************)
(* Model of the wazevo frontend (internal/engine/wazevo/frontend/lower.go):*)
(* the one-pass lowering of a WebAssembly function body to SSA.            *)
(*                                                                         *)
(* The function body is a sequence of bytes.  Fixed-width machine integers *)
(* are kept as sequences of bits, least significant bit first, so that     *)
(* 32-bit and 64-bit arithmetic keeps its width.                           *)
(***************************************************************************)
EXTENDS Integers, Sequences, FiniteSets, TLC

\* ------------------------------------------------------------------ bounds
\* Number of instructions the body generator may append after the scenario prefix.
MaxFree == 3
\* Deepest nesting of block/loop/if the body generator opens.
MaxNest == 3
\* Highest operand stack the body generator builds.
MaxStack == 3

\* ------------------------------------------------------- sequence helpers
Min(a, b) == IF a < b THEN a ELSE b
Last(s) == s[Len(s)]
Front(s) == SubSeq(s, 1, Len(s) - 1)
Drop(s, n) == SubSeq(s, n + 1, Len(s))
Take(s, n) == SubSeq(s, 1, n)
Zeros(n) == [i \in 1..n |-> 0]
\* Bind(e, K) is K applied to e: it names an intermediate result once.
Bind(e, K(_)) == K(e)

\* ------------------------------------------------- fixed-width integers
\* A w-bit integer is a sequence of w bits, least significant first.
RECURSIVE BitsOf(_, _)
BitsOf(n, w) == IF w = 0 THEN <<>> ELSE <<n % 2>> \o BitsOf(n \div 2, w - 1)
ByteBits(b) == BitsOf(b, 8)
ZeroExt(bits, w) == [i \in 1..w |-> IF i <= Len(bits) THEN bits[i] ELSE 0]
SignExt(bits, w) == [i \in 1..w |-> IF i <= Len(bits) THEN bits[i] ELSE Last(bits)]
Trunc(bits, w) == Take(bits, Min(w, Len(bits)))

RECURSIVE ToNat(_)
ToNat(bits) == IF bits = <<>> THEN 0 ELSE bits[1] + 2 * ToNat(Tail(bits))

RECURSIVE AddCarry(_, _, _)
\* Sum of two equally long bit strings and a carry, one bit longer than the operands.
AddCarry(x, y, cin) ==
  IF x = <<>> THEN <<cin>>
  ELSE LET t == x[1] + y[1] + cin
       IN <<t % 2>> \o AddCarry(Tail(x), Tail(y), t \div 2)

\* Addition modulo 2^w of two w-bit integers.
AddWrap(x, y) == Take(AddCarry(x, y, 0), Len(x))

RECURSIVE GeU(_, _)
\* Unsigned x >= y of two equally long bit strings.
GeU(x, y) ==
  IF x = <<>> THEN TRUE
  ELSE IF Last(x) # Last(y) THEN Last(x) > Last(y)
  ELSE GeU(Front(x), Front(y))

IsZero(bits) == \A i \in 1..Len(bits) : bits[i] = 0

\* ------------------------------------------------------------- LEB128
maxVarintLen32 == 5
maxVarintLen64 == 10

RECURSIVE decodeUint32(_, _, _)
\* leb128.LoadUint32: the accumulated bits, the bytes read, and whether decoding failed.
decodeUint32(buf, i, acc) ==
  IF i >= maxVarintLen32 \/ i >= Len(buf) THEN [v |-> Zeros(32), n |-> 0, err |-> TRUE]
  ELSE LET b == buf[i + 1] IN
    IF b < 128
      THEN IF i = maxVarintLen32 - 1 /\ b >= 16
             THEN [v |-> Zeros(32), n |-> 0, err |-> TRUE]
             ELSE [v |-> ZeroExt(Trunc(acc \o BitsOf(b, 7), 32), 32), n |-> i + 1, err |-> FALSE]
      ELSE decodeUint32(buf, i + 1, acc \o BitsOf(b % 128, 7))

LoadUint32(buf) == decodeUint32(buf, 0, <<>>)

RECURSIVE decodeInt(_, _, _, _, _)
\* leb128.LoadInt32 / LoadInt64: signed LEB128 of width w, at most maxLen bytes.
decodeInt(buf, i, acc, w, maxLen) ==
  IF i >= maxLen \/ i >= Len(buf) THEN [v |-> Zeros(w), n |-> 0, err |-> TRUE]
  ELSE LET b == buf[i + 1]
           acc2 == acc \o BitsOf(b % 128, 7)
       IN IF b < 128
            THEN [v |-> SignExt(Trunc(acc2, Min(w, Len(acc2))), w), n |-> i + 1, err |-> FALSE]
            ELSE decodeInt(buf, i + 1, acc2, w, maxLen)

LoadInt32(buf) == decodeInt(buf, 0, <<>>, 32, maxVarintLen32)
LoadInt64(buf) == decodeInt(buf, 0, <<>>, 64, maxVarintLen64)

RECURSIVE EncU(_)
\* Unsigned LEB128 encoding of a natural number (used to write bodies).
EncU(n) == IF n < 128 THEN <<n>> ELSE <<128 + (n % 128)>> \o EncU(n \div 128)

RECURSIVE BytesBits(_)
\* Little-endian bytes as one bit string (binary.LittleEndian.Uint32 / Uint64).
BytesBits(bs) == IF bs = <<>> THEN <<>> ELSE ByteBits(bs[1]) \o BytesBits(Tail(bs))

\* ------------------------------------------------------------- opcodes
OpcodeUnreachable == 0
OpcodeNop == 1
OpcodeBlock == 2
OpcodeLoop == 3
OpcodeIf == 4
OpcodeElse == 5
OpcodeEnd == 11
OpcodeBr == 12
OpcodeBrIf == 13
OpcodeReturn == 15
OpcodeCall == 16
OpcodeDrop == 26
OpcodeLocalGet == 32
OpcodeLocalSet == 33
OpcodeLocalTee == 34
OpcodeI32Load == 40
OpcodeI64Load == 41
OpcodeF32Load == 42
OpcodeF64Load == 43
OpcodeI32Load8S == 44
OpcodeI32Load8U == 45
OpcodeI32Load16S == 46
OpcodeI32Load16U == 47
OpcodeI64Load8S == 48
OpcodeI64Load8U == 49
OpcodeI64Load16S == 50
OpcodeI64Load16U == 51
OpcodeI64Load32S == 52
OpcodeI64Load32U == 53
OpcodeI32Const == 65
OpcodeI64Const == 66
OpcodeF32Const == 67
OpcodeF64Const == 68
OpcodeI32LtS == 72
OpcodeI32Add == 106

\* The binary opcodes of lowerOpcode, each with the IR instruction it becomes
\* (i32 and i64, or f32 and f64, variants share one case of the switch).
BinaryIR ==
  [o \in {106, 124} |-> "Iadd"] @@ [o \in {107, 125} |-> "Isub"] @@
  [o \in {108, 126} |-> "Imul"] @@ [o \in {146, 160} |-> "Fadd"] @@
  [o \in {147, 161} |-> "Fsub"] @@ [o \in {148, 162} |-> "Fmul"] @@
  [o \in {149, 163} |-> "Fdiv"] @@ [o \in {151, 165} |-> "Fmax"] @@
  [o \in {150, 164} |-> "Fmin"] @@ [o \in {116, 134} |-> "Ishl"] @@
  [o \in {118, 136} |-> "Ushr"] @@ [o \in {117, 135} |-> "Sshr"]
ArithOps == DOMAIN BinaryIR

\* Integer and float comparisons: the condition handed to insertIcmp / insertFcmp.
IcmpCond ==
  [o \in {70, 81} |-> "eq"] @@ [o \in {71, 82} |-> "ne"] @@
  [o \in {72, 83} |-> "lt_s"] @@ [o \in {73, 84} |-> "lt_u"] @@
  [o \in {74, 85} |-> "gt_s"] @@ [o \in {75, 86} |-> "gt_u"] @@
  [o \in {76, 87} |-> "le_s"] @@ [o \in {77, 88} |-> "le_u"] @@
  [o \in {78, 89} |-> "ge_s"] @@ [o \in {79, 90} |-> "ge_u"]
FcmpCond ==
  [o \in {91, 97} |-> "eq"] @@ [o \in {92, 98} |-> "ne"] @@
  [o \in {93, 99} |-> "lt"] @@ [o \in {94, 100} |-> "gt"] @@
  [o \in {95, 101} |-> "le"] @@ [o \in {96, 102} |-> "ge"]
IcmpOps == DOMAIN IcmpCond
FcmpOps == DOMAIN FcmpCond
BinaryOps == ArithOps \cup IcmpOps \cup FcmpOps

\* Sign and zero extensions: <<signed, from, to>> as passed to insertIntegerExtend.
ExtendArgs ==
  (194 :> <<TRUE, 8, 64>>) @@ (195 :> <<TRUE, 16, 64>>) @@ (196 :> <<TRUE, 32, 64>>) @@
  (172 :> <<TRUE, 32, 64>>) @@ (173 :> <<FALSE, 32, 64>>) @@
  (192 :> <<TRUE, 8, 32>>) @@ (193 :> <<TRUE, 16, 32>>)
ExtendOps == DOMAIN ExtendArgs

LoadOps == OpcodeI32Load..OpcodeI64Load32U
ConstOps == {OpcodeI32Const, OpcodeI64Const, OpcodeF32Const, OpcodeF64Const}
ControlOps == {OpcodeBlock, OpcodeLoop, OpcodeIf, OpcodeElse, OpcodeEnd}
SupportedOps ==
  ConstOps \cup BinaryOps \cup ExtendOps \cup LoadOps \cup ControlOps \cup
  {OpcodeLocalGet, OpcodeLocalSet, OpcodeBr, OpcodeBrIf, OpcodeNop, OpcodeReturn,
   OpcodeUnreachable, OpcodeCall, OpcodeDrop}

\* Bytes the load's ceil adds to the offset: the access width.
LoadWidth(op) ==
  CASE op \in {OpcodeI32Load, OpcodeF32Load} -> 4
    [] op \in {OpcodeI64Load, OpcodeF64Load} -> 8
    [] op \in {OpcodeI32Load8S, OpcodeI32Load8U} -> 1
    [] op \in {OpcodeI32Load16S, OpcodeI32Load16U} -> 2
    [] op \in {OpcodeI64Load8S, OpcodeI64Load8U} -> 1
    [] op \in {OpcodeI64Load16S, OpcodeI64Load16U} -> 2
    [] op \in {OpcodeI64Load32S, OpcodeI64Load32U} -> 4

\* The load instruction of each load opcode: <<IR opcode, aux>>.
LoadKind(op) ==
  CASE op = OpcodeI32Load -> <<"Load", "i32">>
    [] op = OpcodeI64Load -> <<"Load", "i64">>
    [] op = OpcodeF32Load -> <<"Load", "f32">>
    [] op = OpcodeF64Load -> <<"Load", "f64">>
    [] op = OpcodeI32Load8S -> <<"Sload8", "32">>
    [] op = OpcodeI32Load8U -> <<"Uload8", "32">>
    [] op = OpcodeI32Load16S -> <<"Sload16", "32">>
    [] op = OpcodeI32Load16U -> <<"Uload16", "32">>
    [] op = OpcodeI64Load8S -> <<"Sload8", "64">>
    [] op = OpcodeI64Load8U -> <<"Uload8", "64">>
    [] op = OpcodeI64Load16S -> <<"Sload16", "64">>
    [] op = OpcodeI64Load16U -> <<"Uload16", "64">>
    [] op = OpcodeI64Load32S -> <<"Sload32", "64">>
    [] op = OpcodeI64Load32U -> <<"Uload32", "64">>

\* ------------------------------------------------------------ the module
\* The module being compiled: three function types, one imported function
\* (index 0, of type () -> (i32)) and two defined functions (index 1,
\* (i32) -> (i32), and index 2, () -> ()).
FT(p, r) == [Params |-> p, Results |-> r]
TypeSection == <<FT(<<>>, <<>>), FT(<<"i32">>, <<"i32">>), FT(<<>>, <<"i32">>)>>
FunctionSection == <<2, 1, 0>>
ImportFunctionCount == 1
needMemory == TRUE

\* wasm.DecodeBlockType: a signed 33-bit LEB128; the negative one-byte codes name
\* the empty type and the single-result types, anything else indexes the type section.
BlockTypeCode(b) == SignExt(BitsOf(b, 7), 33)
DecodeBlockType(buf) ==
  Bind(decodeInt(buf, 0, <<>>, 33, maxVarintLen32), LAMBDA d :
    LET none == [bt |-> FT(<<>>, <<>>), n |-> 0, err |-> TRUE]
        ok(t) == [bt |-> t, n |-> d.n, err |-> FALSE]
    IN IF d.err THEN none
       ELSE IF d.v = BlockTypeCode(64) THEN ok(FT(<<>>, <<>>))
       ELSE IF d.v = BlockTypeCode(127) THEN ok(FT(<<>>, <<"i32">>))
       ELSE IF d.v = BlockTypeCode(126) THEN ok(FT(<<>>, <<"i64">>))
       ELSE IF d.v = BlockTypeCode(125) THEN ok(FT(<<>>, <<"f32">>))
       ELSE IF d.v = BlockTypeCode(124) THEN ok(FT(<<>>, <<"f64">>))
       ELSE IF d.v[33] = 1 \/ ~IsZero(Drop(d.v, 8)) THEN none
       ELSE IF ToNat(Take(d.v, 8)) >= Len(TypeSection) THEN none
       ELSE ok(TypeSection[ToNat(Take(d.v, 8)) + 1]))

\* ------------------------------------------------------ control frames
controlFrameKindFunction == 1
controlFrameKindLoop == 2
controlFrameKindIfWithElse == 3
controlFrameKindIfWithoutElse == 4
controlFrameKindBlock == 5

\* The nil ssa.BasicBlock and the invalid ssa.Value.
NoBlock == 0
ValueInvalid == 0

controlFrame(kind, orig, blk, following, bt, cloned) ==
  [kind |-> kind, originalStackLenWithoutParam |-> orig, blk |-> blk,
   followingBlock |-> following, blockType |-> bt, clonedArgs |-> cloned]

isLoop(ctrl) == ctrl.kind = controlFrameKindLoop

\* ------------------------------------------------------------ the state
VARIABLES
  wasmFunctionBody,   \* c.wasmFunctionBody: the bytes of the body (as far as written)
  wasmFunctionTyp,    \* c.wasmFunctionTyp: the type of the function being lowered
  values,             \* loweringState.values
  valuesSpare,        \* the slots of values' backing array beyond len(values)
  controlFrames,      \* loweringState.controlFrames
  unreachable,        \* loweringState.unreachable
  unreachableDepth,   \* loweringState.unreachableDepth
  pc,                 \* loweringState.pc
  blocks,             \* the builder's basic blocks, by BasicBlock id
  currentBlock,       \* the builder's current block
  nextValue,          \* the next ssa.Value the builder hands out
  panicked,           \* "" or the panic that ended the lowering
  validator,          \* the position of the body in Wasm validation (which bodies are valid)
  script,             \* instructions the body is still to continue with
  free,               \* instructions the generator has appended after the script
  last,               \* what the last dispatch of lowerOpcode did
  exec,               \* the run of the lowered code (memory access checks)
  stack,              \* callEngine.stack: the slice header (Data, Len) of the stack
  stackTop,           \* callEngine.stackTop
  sizeOfParamResultSlice, \* callEngine.sizeOfParamResultSlice
  execCtx,            \* callEngine.execCtx: the fields the assembly functions read and write
  stackBytes,         \* the bytes of the used region of the stack, by address
  heapEnd,            \* the address after the last allocation
  paramResultSlice,   \* the parameter/result slice of the call
  callPc,             \* where the call of the function is
  callReturn,         \* what Call or CallWithStack returned
  grows,              \* how many times the compiled code has asked for a larger stack,
                      \* counted up to MaxVaried + 1
  gojsErr,            \* gojs: the error ToErrno is called with
  gojsPc,             \* gojs: where the call of ToErrno is
  gojsErrno,          \* gojs: the *Errno ToErrno returned
  openedFiles,        \* gojs: FSContext, the file of every open file descriptor
  lastFD,             \* gojs: FSContext, the last file descriptor handed out
  cwd,                \* gojs: the working directory in the state of the module
  fsCall              \* gojs: the last call into jsfs and what it returned

loweringVars == <<wasmFunctionBody, wasmFunctionTyp, values, valuesSpare, controlFrames,
                  unreachable, unreachableDepth, pc, blocks, currentBlock, nextValue,
                  panicked, validator, script, free, last, exec>>
engineVars == <<stack, stackTop, sizeOfParamResultSlice, execCtx, stackBytes, heapEnd,
                paramResultSlice, callPc, callReturn, grows>>
fsVars == <<openedFiles, lastFD, cwd, fsCall>>
gojsVars == <<gojsErr, gojsPc, gojsErrno, fsVars>>
vars == <<loweringVars, engineVars, gojsVars>>

\* The two values every function receives in its entry block.
execCtxPtrValue == 1
moduleCtxPtrValue == 2

\* The builder's named variables.
memoryBaseVariable == <<"memoryBase", 0>>
memoryLenVariable == <<"memoryLen", 0>>
localVariable(index) == <<"local", index>>
Variables == {memoryBaseVariable, memoryLenVariable, localVariable(0)}

\* The compiler as one record, so that the steps of a handler compose.
Compiler ==
  [body |-> wasmFunctionBody, typ |-> wasmFunctionTyp, values |-> values,
   spare |-> valuesSpare, controlFrames |-> controlFrames,
   unreachable |-> unreachable, unreachableDepth |-> unreachableDepth, pc |-> pc,
   blocks |-> blocks, cur |-> currentBlock, nextValue |-> nextValue, panic |-> panicked]

\* A Go panic: the lowering of this function is over.
Panic(c, msg) == IF c.panic = "" THEN [c EXCEPT !.panic = msg] ELSE c
\* The next step K of a handler, which a panic skips.
Then(c, K(_)) == IF c.panic # "" THEN c ELSE K(c)

\* ---------------------------------------------------- loweringState
\* append(l.values, ret): fills a spare slot of the backing array, or grows the
\* array (doubling its capacity) when there is none.
push(c, ret) ==
  IF c.spare # <<>>
    THEN [c EXCEPT !.values = Append(@, ret), !.spare = Tail(@)]
    ELSE LET cap == Len(c.values)
             newcap == IF cap = 0 THEN 1 ELSE 2 * cap
         IN [c EXCEPT !.values = Append(@, ret), !.spare = Zeros(newcap - cap - 1)]

RECURSIVE pushAll(_, _)
pushAll(c, vs) == IF vs = <<>> THEN c ELSE pushAll(push(c, vs[1]), Tail(vs))

\* l.values = l.values[:n]: legal up to the capacity, and then brings back what
\* the backing array still holds.
reslice(c, n) ==
  LET backing == c.values \o c.spare
  IN IF n < 0 \/ n > Len(backing) THEN Panic(c, "slice bounds out of range")
     ELSE [c EXCEPT !.values = Take(backing, n), !.spare = Drop(backing, n)]

\* pop: the state after it; the value popped is Last(c.values).
pop(c) ==
  IF c.values = <<>> THEN Panic(c, "index out of range")
  ELSE reslice(c, Len(c.values) - 1)

\* nPopInto: the state after it; the values moved are nPeekDup's.
nPopInto(c, n) ==
  IF n = 0 THEN c
  ELSE IF Len(c.values) < n THEN Panic(c, "slice bounds out of range")
  ELSE reslice(c, Len(c.values) - n)

\* nPeekDup and cloneValuesList: a copy of the top n values (nil for n = 0).
cloneValuesList(in) == [i \in 1..Len(in) |-> in[i]]
CanPeek(c, n) == n = 0 \/ Len(c.values) >= n
nPeekDup(c, n) == IF n = 0 THEN <<>> ELSE cloneValuesList(Drop(c.values, Len(c.values) - n))

ctrlPop(c) ==
  IF c.controlFrames = <<>> THEN Panic(c, "index out of range")
  ELSE [c EXCEPT !.controlFrames = Front(@)]

ctrlPush(c, ret) == [c EXCEPT !.controlFrames = Append(@, ret)]

\* ctrlPeekAt(n) is the frame at index CtrlIndex(c, n); there is none when that is < 1.
CtrlIndex(c, n) == Len(c.controlFrames) - n
ctrlPeekAt(c, n) == c.controlFrames[CtrlIndex(c, n)]

results(c) == Len(TypeSection[c.typ + 1].Results)

\* ------------------------------------------------------- the SSA builder
Instr(op, args, blk, imm, aux, rets) ==
  [op |-> op, args |-> args, blk |-> blk, imm |-> imm, aux |-> aux, rets |-> rets]
BranchOps == {"Jump", "Brz", "Brnz"}

NewBlock == [params |-> <<>>, preds |-> <<>>, sealed |-> 0, sealedWith |-> 0, instrs |-> <<>>,
             defs |-> [v \in Variables |-> ValueInvalid], unknown |-> {}, phis |-> <<>>]

\* AllocateBasicBlock: the new block is block Len(c.blocks) + 1.
AllocateBasicBlock(c) == [c EXCEPT !.blocks = Append(@, NewBlock)]

\* addBlockParamsFromWasmTypes: one fresh value per type.
addBlockParamsFromWasmTypes(c, tps, blk) ==
  [c EXCEPT !.blocks[blk].params = @ \o [i \in 1..Len(tps) |-> c.nextValue + i - 1],
            !.nextValue = @ + Len(tps)]

\* AllocateInstruction, the As... setter and InsertInstruction: the instruction goes
\* to the end of the current block, its nret results are fresh values, and a branch
\* makes the current block a predecessor of its target.
Insert(c, op, args, blk, imm, aux, nret) ==
  IF c.panic # "" THEN c
  ELSE IF c.cur = NoBlock \/ (op \in BranchOps /\ blk = NoBlock)
    THEN Panic(c, "nil pointer dereference")
  ELSE LET rets == [i \in 1..nret |-> c.nextValue + i - 1]
           c1 == [c EXCEPT !.blocks[c.cur].instrs = Append(@, Instr(op, args, blk, imm, aux, rets)),
                           !.nextValue = @ + nret]
       IN IF op \in BranchOps THEN [c1 EXCEPT !.blocks[blk].preds = Append(@, c.cur)] ELSE c1

Seal(c, blk) ==
  IF c.panic # "" THEN c
  ELSE IF blk = NoBlock THEN Panic(c, "nil pointer dereference")
  ELSE [c EXCEPT !.blocks[blk].sealed = @ + 1,
                 !.blocks[blk].sealedWith = IF c.blocks[blk].sealed = 0
                                              THEN Len(c.blocks[blk].preds) ELSE @]

SetCurrentBlock(c, blk) ==
  IF c.panic # "" THEN c
  ELSE IF blk = NoBlock THEN Panic(c, "interface conversion: interface is nil")
  ELSE [c EXCEPT !.cur = blk]

DefineVariableInCurrentBB(c, variable, v) ==
  IF c.panic # "" THEN c
  ELSE IF c.cur = NoBlock THEN Panic(c, "nil pointer dereference")
  ELSE [c EXCEPT !.blocks[c.cur].defs[variable] = v]

RECURSIVE findValue(_, _, _)
\* The builder's search for the definition of a variable that reaches a block: the
\* block's own definition, else a placeholder while the block is unsealed, else the
\* single predecessor's, else (a join) a new block parameter.  The state after the
\* search and the value found.
findValue(c, variable, blk) ==
  LET b == c.blocks[blk] IN
  IF b.defs[variable] # ValueInvalid THEN [c |-> c, v |-> b.defs[variable]]
  ELSE IF b.sealed = 0
    THEN [c |-> [c EXCEPT !.blocks[blk].defs[variable] = c.nextValue,
                          !.blocks[blk].unknown = @ \cup {variable},
                          !.nextValue = @ + 1],
          v |-> c.nextValue]
  ELSE IF Len(b.preds) = 0 THEN [c |-> c, v |-> ValueInvalid]
  ELSE IF Len(b.preds) = 1 THEN findValue(c, variable, b.preds[1])
  ELSE [c |-> [c EXCEPT !.blocks[blk].defs[variable] = c.nextValue,
                        !.blocks[blk].phis = Append(@, c.nextValue),
                        !.nextValue = @ + 1],
        v |-> c.nextValue]

FindValue(c, variable) ==
  IF c.panic # "" \/ c.cur = NoBlock
    THEN [c |-> Panic(c, "nil pointer dereference"), v |-> ValueInvalid]
    ELSE findValue(c, variable, c.cur)

\* ------------------------------------------------------ bytecode cursor
\* Each reader gives the state after the read (pc moved over the immediate) and
\* the value read.
Rest(c) == Drop(c.body, c.pc + 1)

\* The result of a reader from the decoder's result d.
Read(c, d, msg) ==
  IF d.err THEN [c |-> Panic(c, msg), v |-> d.v]
  ELSE [c |-> [c EXCEPT !.pc = @ + d.n], v |-> d.v]

readI32u(c) == Read(c, LoadUint32(Rest(c)), "leb128")
readI32s(c) == Read(c, LoadInt32(Rest(c)), "leb128")
readI64s(c) == Read(c, LoadInt64(Rest(c)), "leb128")

readF32(c) ==
  IF Len(Rest(c)) < 4 THEN [c |-> Panic(c, "read float"), v |-> Zeros(32)]
  ELSE [c |-> [c EXCEPT !.pc = @ + 4], v |-> BytesBits(Take(Rest(c), 4))]

readF64(c) ==
  IF Len(Rest(c)) < 8 THEN [c |-> Panic(c, "read float"), v |-> Zeros(64)]
  ELSE [c |-> [c EXCEPT !.pc = @ + 8], v |-> BytesBits(Take(Rest(c), 8))]

readBlockType(c) ==
  Bind(DecodeBlockType(Rest(c)), LAMBDA d :
    IF d.err THEN [c |-> Panic(c, "block type"), v |-> d.bt]
    ELSE [c |-> [c EXCEPT !.pc = @ + d.n], v |-> d.bt])

\* readMemArg: align, then offset; the value read is the offset.
readMemArg(c) ==
  Bind(Read(c, LoadUint32(Rest(c)), "read memory align"), LAMBDA a :
    IF a.c.panic # "" THEN a
    ELSE Read(a.c, LoadUint32(Rest(a.c)), "read memory offset"))

\* A small index read as u32, as a number.
Index(bits) == IF IsZero(Drop(bits, 16)) THEN ToNat(Take(bits, 16)) ELSE 65536

\* ------------------------------------------------------ shared helpers
insertJumpToBlock(c, args, targetBlk) == Insert(c, "Jump", args, targetBlk, <<>>, "", 0)

switchTo(c, originalStackLen, targetBlk) ==
  IF c.panic # "" THEN c
  ELSE IF targetBlk = NoBlock THEN Panic(c, "nil pointer dereference")
  ELSE Then(reslice(IF Len(c.blocks[targetBlk].preds) = 0
                      THEN [c EXCEPT !.unreachable = TRUE] ELSE c,
                    originalStackLen),
            LAMBDA c2 : Then(SetCurrentBlock(c2, targetBlk),
                             LAMBDA c3 : pushAll(c3, c3.blocks[targetBlk].params)))

\* getModuleCtxValue: the cached value of the variable if the builder finds one,
\* else a load from the module context, defined as the variable in the current block.
getModuleCtxValue(c, variable, offset, zeroExt) ==
  Bind(FindValue(c, variable), LAMBDA f :
    IF f.c.panic # "" \/ f.v # ValueInvalid THEN f
    ELSE [c |-> DefineVariableInCurrentBB(
                  Insert(f.c, IF zeroExt THEN "Uload32" ELSE "Load", <<moduleCtxPtrValue>>,
                         NoBlock, <<>>, offset, 1),
                  variable, f.c.nextValue),
          v |-> f.c.nextValue])

getMemoryBaseValue(c) == getModuleCtxValue(c, memoryBaseVariable, "LocalMemoryBase", FALSE)
getMemoryLenValue(c) == getModuleCtxValue(c, memoryLenVariable, "LocalMemoryLen", TRUE)

\* An instruction with one result, pushed: the shape of most cases of lowerOpcode.
InsertAndPush(c, op, args, imm, aux) ==
  Then(Insert(c, op, args, NoBlock, imm, aux, 1), LAMBDA c1 : push(c1, c.nextValue))

\* y, x := state.pop(), state.pop(); one instruction op(x, y); its result pushed.
insertBinary(c, op, aux) ==
  IF Len(c.values) < 2 THEN Panic(c, "index out of range")
  ELSE LET y == c.values[Len(c.values)]
           x == c.values[Len(c.values) - 1]
       IN InsertAndPush(pop(pop(c)), op, <<x, y>>, <<>>, aux)

insertIcmp(c, cond) == insertBinary(c, "Icmp", cond)
insertFcmp(c, cond) == insertBinary(c, "Fcmp", cond)

insertIntegerExtend(c, signed, from, to) ==
  IF c.values = <<>> THEN Panic(c, "index out of range")
  ELSE InsertAndPush(pop(c), IF signed THEN "SExtend" ELSE "UExtend", <<Last(c.values)>>,
                     <<from, to>>, "")

storeCallerModuleContext(c) ==
  Insert(c, "Store", <<moduleCtxPtrValue, execCtxPtrValue>>, NoBlock, <<>>,
         "CallerModuleContextPtr", 0)

\* ------------------------------------------------------ lowerOpcode
\* Each case of the switch of lowerOpcode, as the compiler after the case.

\* The cases that read their immediate and then return when unreachable.
AfterRead(c, r, K(_, _)) == IF r.c.panic # "" \/ c.unreachable THEN r.c ELSE K(r.c, r.v)

lowerConst(c, op) ==
  CASE op = OpcodeI32Const ->
         AfterRead(c, readI32s(c), LAMBDA c1, v : InsertAndPush(c1, "Iconst32", <<>>, v, ""))
    [] op = OpcodeI64Const ->
         AfterRead(c, readI64s(c), LAMBDA c1, v : InsertAndPush(c1, "Iconst64", <<>>, v, ""))
    [] op = OpcodeF32Const ->
         IF c.unreachable THEN c
         ELSE AfterRead(c, readF32(c), LAMBDA c1, v : InsertAndPush(c1, "F32const", <<>>, v, ""))
    [] op = OpcodeF64Const ->
         IF c.unreachable THEN c
         ELSE AfterRead(c, readF64(c), LAMBDA c1, v : InsertAndPush(c1, "F64const", <<>>, v, ""))

lowerBinary(c, op) ==
  IF c.unreachable THEN c
  ELSE IF op \in ArithOps THEN insertBinary(c, BinaryIR[op], "")
  ELSE IF op \in IcmpOps THEN insertIcmp(c, IcmpCond[op])
  ELSE insertFcmp(c, FcmpCond[op])

lowerExtend(c, op) ==
  IF c.unreachable THEN c
  ELSE insertIntegerExtend(c, ExtendArgs[op][1], ExtendArgs[op][2], ExtendArgs[op][3])

lowerLocalGet(c) ==
  AfterRead(c, readI32u(c), LAMBDA c1, index :
    IF localVariable(Index(index)) \notin Variables THEN Panic(c1, "variable not found")
    ELSE Bind(FindValue(c1, localVariable(Index(index))), LAMBDA f :
           IF f.c.panic # "" THEN f.c
           ELSE IF f.v = ValueInvalid THEN Panic(f.c, "variable not found")
           ELSE push(f.c, f.v)))

lowerLocalSet(c) ==
  AfterRead(c, readI32u(c), LAMBDA c1, index :
    IF c1.values = <<>> THEN Panic(c1, "index out of range")
    ELSE IF localVariable(Index(index)) \notin Variables THEN Panic(c1, "variable not found")
    ELSE DefineVariableInCurrentBB(pop(c1), localVariable(Index(index)), Last(c1.values)))

\* The constant the load emits for ceil: offset + width in uint32, then widened.
LoadCeil(op, offset) == ZeroExt(AddWrap(offset, BitsOf(LoadWidth(op), 32)), 64)

\* The compare of the bounds check and the exit it guards.
BoundsCheck(c, memLen, baseAddrPlusCeil) ==
  LET cmp == c.nextValue
  IN Insert(Insert(c, "Icmp", <<memLen, baseAddrPlusCeil>>, NoBlock, <<>>, "ge_u", 1),
            "ExitIfNotZeroWithCode", <<execCtxPtrValue, cmp>>, NoBlock, <<>>,
            "ExitCodeMemoryOutOfBounds", 0)

lowerLoad(c, op) ==
  AfterRead(c, readMemArg(c), LAMBDA c0, offset :
    Then(Insert(c0, "Iconst64", <<>>, NoBlock, LoadCeil(op, offset), "", 1), LAMBDA c1 :
      IF c1.values = <<>> THEN Panic(c1, "index out of range")
      ELSE
      Then(Insert(pop(c1), "UExtend", <<Last(c1.values)>>, NoBlock, <<32, 64>>, "", 1), LAMBDA c2 :
        Bind(getMemoryLenValue(c2), LAMBDA memLen :
          LET ceilConst == c0.nextValue
              extBaseAddr == c1.nextValue
              baseAddrPlusCeil == memLen.c.nextValue
          IN
          Then(Insert(memLen.c, "Iadd", <<extBaseAddr, ceilConst>>, NoBlock, <<>>, "", 1), LAMBDA c3 :
            Then(BoundsCheck(c3, memLen.v, baseAddrPlusCeil), LAMBDA c5 :
              Bind(getMemoryBaseValue(c5), LAMBDA memBase :
                Then(Insert(memBase.c, "Iadd", <<memBase.v, extBaseAddr>>, NoBlock, <<>>, "", 1),
                     LAMBDA c6 :
                  Then(Insert(c6, LoadKind(op)[1], <<memBase.c.nextValue>>, NoBlock, offset,
                              LoadKind(op)[2], 1),
                       LAMBDA c7 : push(c7, c6.nextValue))))))))))

\* block, loop and if met while unreachable.
SkipOpener(c) == [c EXCEPT !.unreachableDepth = @ + 1]
\* The cases that read a block type: they count the opener when unreachable.
AfterBlockType(c, r, K(_, _)) ==
  IF r.c.panic # "" THEN r.c ELSE IF c.unreachable THEN SkipOpener(r.c) ELSE K(r.c, r.v)

\* A block case that takes the whole stack as lying under the block.
lowerBlockOverParams(c) ==
  AfterBlockType(c, readBlockType(c), LAMBDA c0, bt :
    LET followingBlk == Len(c0.blocks) + 1
    IN ctrlPush(addBlockParamsFromWasmTypes(AllocateBasicBlock(c0), bt.Results, followingBlk),
                controlFrame(controlFrameKindBlock, Len(c0.values),
                             NoBlock, followingBlk, bt, <<>>)))

lowerBlock(c) ==
  AfterBlockType(c, readBlockType(c), LAMBDA c0, bt :
    LET followingBlk == Len(c0.blocks) + 1
    IN ctrlPush(addBlockParamsFromWasmTypes(AllocateBasicBlock(c0), bt.Results, followingBlk),
                controlFrame(controlFrameKindBlock, Len(c0.values) - Len(bt.Params),
                             NoBlock, followingBlk, bt, <<>>)))

lowerLoop(c) ==
  AfterBlockType(c, readBlockType(c), LAMBDA c0, bt :
    LET loopHeader == Len(c0.blocks) + 1
        afterLoopBlock == Len(c0.blocks) + 2
        originalLen == Len(c0.values) - Len(bt.Params)
        args == IF Len(bt.Params) > 0 THEN cloneValuesList(Drop(c0.values, originalLen)) ELSE <<>>
    IN IF originalLen < 0 THEN Panic(c0, "slice bounds out of range")
       ELSE switchTo(
              Insert(ctrlPush(addBlockParamsFromWasmTypes(
                                addBlockParamsFromWasmTypes(
                                  AllocateBasicBlock(AllocateBasicBlock(c0)),
                                  bt.Params, loopHeader),
                                bt.Results, afterLoopBlock),
                              controlFrame(controlFrameKindLoop, originalLen, loopHeader,
                                           afterLoopBlock, bt, <<>>)),
                     "Jump", args, loopHeader, <<>>, "", 0),
              originalLen, loopHeader))

\* Where the if case starts the copy it saves as clonedArgs,
\* values[len(values)-1-len(bt.Params):], taken after the condition has been popped.
IfClonedFrom(c, bt) == Len(c.values) - 1 - Len(bt.Params)

lowerIf(c) ==
  AfterBlockType(c, readBlockType(c), LAMBDA c0, bt :
    IF c0.values = <<>> THEN Panic(c0, "index out of range")
    ELSE Then(pop(c0), LAMBDA c1 :
      LET v == Last(c0.values)
          thenBlk == Len(c1.blocks) + 1
          elseBlk == Len(c1.blocks) + 2
          followingBlk == Len(c1.blocks) + 3
          args == IF Len(bt.Params) > 0
                    THEN cloneValuesList(Drop(c1.values, IfClonedFrom(c1, bt))) ELSE <<>>
      IN IF Len(bt.Params) > 0 /\ IfClonedFrom(c1, bt) < 0
           THEN Panic(c1, "slice bounds out of range")
         ELSE Seal(Seal(SetCurrentBlock(
                ctrlPush(
                  Insert(Insert(addBlockParamsFromWasmTypes(
                                  AllocateBasicBlock(AllocateBasicBlock(AllocateBasicBlock(c1))),
                                  bt.Results, followingBlk),
                                "Brz", <<v>>, elseBlk, <<>>, "", 0),
                         "Jump", <<>>, thenBlk, <<>>, "", 0),
                  controlFrame(controlFrameKindIfWithoutElse, Len(c1.values) - Len(bt.Params),
                               elseBlk, followingBlk, bt, args)),
                thenBlk), thenBlk), elseBlk)))

\* ifctrl.kind = controlFrameKindIfWithElse, on the frame ctrlPeekAt(0) points to.
ElseMarksFrame(c) ==
  [c EXCEPT !.controlFrames[Len(c.controlFrames)].kind = controlFrameKindIfWithElse]

\* The else case once the frame is marked and it is not a nested unreachable else.
ElseBranch(c1, ifctrl) ==
  LET nres == Len(ifctrl.blockType.Results)
  IN IF ~c1.unreachable /\ ~CanPeek(c1, nres) THEN Panic(c1, "slice bounds out of range")
     ELSE Then(IF ~c1.unreachable
                 THEN insertJumpToBlock(c1, nPeekDup(c1, nres), ifctrl.followingBlock)
                 ELSE [c1 EXCEPT !.unreachable = FALSE],
               LAMBDA c2 :
                 Then(reslice(c2, ifctrl.originalStackLenWithoutParam),
                      LAMBDA c3 : SetCurrentBlock(pushAll(c3, ifctrl.clonedArgs), ifctrl.blk)))

lowerElse(c) ==
  IF c.controlFrames = <<>> THEN Panic(c, "index out of range")
  ELSE Bind(ElseMarksFrame(c), LAMBDA c1 :
         IF c1.unreachable /\ c1.unreachableDepth > 0 THEN c1
         ELSE ElseBranch(c1, Last(c1.controlFrames)))

\* What the end case does for the kind of the frame, before the following block
\* is sealed.
EndOfKind(c, ctrl) ==
  CASE ctrl.kind = controlFrameKindLoop -> Seal(c, ctrl.blk)
    [] ctrl.kind = controlFrameKindIfWithoutElse ->
         insertJumpToBlock(SetCurrentBlock(c, ctrl.blk), <<>>, ctrl.followingBlock)
    [] OTHER -> c

\* An end case that seals the following block before the empty else branch of
\* an if without else jumps to it.
EndOfFrameSealsFirst(c, ctrl) ==
  IF ctrl.kind = controlFrameKindFunction THEN c
  ELSE switchTo(EndOfKind(Seal(c, ctrl.followingBlock), ctrl),
                ctrl.originalStackLenWithoutParam, ctrl.followingBlock)

\* The end case after the frame is popped and the branch to the following block
\* is in place.
EndOfFrame(c, ctrl) ==
  IF ctrl.kind = controlFrameKindFunction THEN c
  ELSE switchTo(Seal(EndOfKind(c, ctrl), ctrl.followingBlock),
                ctrl.originalStackLenWithoutParam, ctrl.followingBlock)

\* An end case that makes the code reachable again at the end of a construct
\* nested in dead code.
EndWithFrameRevives(c1, ctrl) ==
  LET nres == Len(ctrl.blockType.Results)
  IN IF ~c1.unreachable
       THEN IF ~CanPeek(c1, nres) THEN Panic(c1, "slice bounds out of range")
            ELSE EndOfFrame(insertJumpToBlock(c1, nPeekDup(c1, nres), ctrl.followingBlock), ctrl)
     ELSE IF c1.unreachableDepth > 0
       THEN [c1 EXCEPT !.unreachableDepth = @ - 1, !.unreachable = FALSE]
     ELSE EndOfFrame([c1 EXCEPT !.unreachable = FALSE], ctrl)

\* The end case with the frame ctrl popped (c1 is the state after ctrlPop).
EndWithFrame(c1, ctrl) ==
  LET nres == Len(ctrl.blockType.Results)
  IN IF ~c1.unreachable
       THEN IF ~CanPeek(c1, nres) THEN Panic(c1, "slice bounds out of range")
            ELSE EndOfFrame(insertJumpToBlock(c1, nPeekDup(c1, nres), ctrl.followingBlock), ctrl)
     ELSE IF c1.unreachableDepth > 0 THEN [c1 EXCEPT !.unreachableDepth = @ - 1]
     ELSE EndOfFrame([c1 EXCEPT !.unreachable = FALSE], ctrl)

lowerEnd(c) ==
  IF c.controlFrames = <<>> THEN ctrlPop(c)
  ELSE EndWithFrame(ctrlPop(c), Last(c.controlFrames))

\* The target of br / br_if to a frame: <<block, number of arguments>>.
BranchTarget(targetFrame) ==
  IF isLoop(targetFrame)
    THEN <<targetFrame.blk, Len(targetFrame.blockType.Params)>>
    ELSE <<targetFrame.followingBlock, Len(targetFrame.blockType.Results)>>

lowerBr(c) ==
  AfterRead(c, readI32u(c), LAMBDA c0, labelIndex :
    IF CtrlIndex(c0, Index(labelIndex)) < 1 THEN Panic(c0, "index out of range")
    ELSE Bind(BranchTarget(ctrlPeekAt(c0, Index(labelIndex))), LAMBDA t :
      IF ~CanPeek(c0, t[2]) THEN Panic(c0, "slice bounds out of range")
      ELSE Then(insertJumpToBlock(c0, nPeekDup(c0, t[2]), t[1]),
                LAMBDA c1 : [c1 EXCEPT !.unreachable = TRUE])))

lowerBrIf(c) ==
  AfterRead(c, readI32u(c), LAMBDA c0, labelIndex :
    IF c0.values = <<>> THEN Panic(c0, "index out of range")
    ELSE Then(pop(c0), LAMBDA c1 :
      IF CtrlIndex(c1, Index(labelIndex)) < 1 THEN Panic(c1, "index out of range")
      ELSE Bind(BranchTarget(ctrlPeekAt(c1, Index(labelIndex))), LAMBDA t :
        IF ~CanPeek(c1, t[2]) THEN Panic(c1, "slice bounds out of range")
        ELSE Then(Insert(c1, "Brnz", <<Last(c0.values)>> \o nPeekDup(c1, t[2]), t[1],
                         <<>>, "", 0),
                  LAMBDA c2 :
                    LET elseBlk == Len(c2.blocks) + 1
                    IN SetCurrentBlock(insertJumpToBlock(AllocateBasicBlock(c2), <<>>, elseBlk),
                                       elseBlk)))))

lowerNop(c) == c

lowerReturn(c) ==
  IF ~CanPeek(c, results(c)) THEN Panic(c, "slice bounds out of range")
  ELSE Then(Insert(c, "Return", nPeekDup(c, results(c)), NoBlock, <<>>, "", 0),
            LAMBDA c1 : [c1 EXCEPT !.unreachable = TRUE])

lowerUnreachable(c) ==
  Then(Insert(c, "ExitWithCode", <<execCtxPtrValue>>, NoBlock, <<>>, "ExitCodeUnreachable", 0),
       LAMBDA c1 : [c1 EXCEPT !.unreachable = TRUE])

\* The call instruction of the call case, direct or through the imported
\* function's pointer: the state after it is inserted.
InsertCall(c, fnIndex, popped, nres) ==
  IF fnIndex >= ImportFunctionCount
    THEN Insert(c, "Call", <<execCtxPtrValue, moduleCtxPtrValue>> \o popped,
                NoBlock, <<fnIndex>>, "", nres)
    ELSE LET loadFuncPtr == c.nextValue
             loadModuleCtxPtr == c.nextValue + 1
         IN Insert(Insert(Insert(c, "Load", <<moduleCtxPtrValue>>, NoBlock, <<fnIndex>>,
                                 "funcPtr", 1),
                          "Load", <<moduleCtxPtrValue>>, NoBlock, <<fnIndex>>, "moduleCtxPtr", 1),
                   "CallIndirect", <<loadFuncPtr, execCtxPtrValue, loadModuleCtxPtr>> \o popped,
                   NoBlock, <<>>, "", nres)

\* first, rest := call.Returns(): both pushed; first is invalid when the call has
\* no result.
PushReturns(c, rets) ==
  pushAll(push(c, IF rets = <<>> THEN ValueInvalid ELSE rets[1]), Drop(rets, Min(1, Len(rets))))

\* The values getMemoryBaseValue and getMemoryLenValue define after a call.
RedefineMemory(c) == Then(getMemoryBaseValue(c).c, LAMBDA c1 : getMemoryLenValue(c1).c)

lowerCall(c) ==
  AfterRead(c, readI32u(c), LAMBDA c0, fnIndex :
    Then(storeCallerModuleContext(c0), LAMBDA c1 :
      IF Index(fnIndex) >= Len(FunctionSection) THEN Panic(c1, "index out of range")
      ELSE Bind(TypeSection[FunctionSection[Index(fnIndex) + 1] + 1], LAMBDA typ :
        IF ~CanPeek(c1, Len(typ.Params)) THEN Panic(c1, "slice bounds out of range")
        ELSE Then(InsertCall(nPopInto(c1, Len(typ.Params)), Index(fnIndex),
                             nPeekDup(c1, Len(typ.Params)), Len(typ.Results)),
                  LAMBDA call :
                    Then(PushReturns(call, Last(call.blocks[call.cur].instrs).rets),
                         LAMBDA c4 : IF needMemory THEN RedefineMemory(c4) ELSE c4)))))

lowerDrop(c) == pop(c)

lowerUnsupported(c) == Panic(c, "TODO: unsupported in wazevo yet")

\* ------------------------------------------------- bodies and validation
\* An instruction of a body: its opcode, its index immediate (label, local or
\* function index), its block type, and the bytes of its immediates.
Ins(op, x, bt, imm) == [op |-> op, x |-> x, bt |-> bt, imm |-> imm]
Encode(ins) == <<ins.op>> \o ins.imm

NoType == FT(<<>>, <<>>)
Simple(op) == Ins(op, 0, NoType, <<>>)
WithIndex(op, x) == Ins(op, x, NoType, EncU(x))
\* Block types: 64 (0x40) is the empty type, 127 (0x7f) a single i32 result, and a
\* small number an index into the type section.
BlockTypeOf(code) ==
  IF code = 64 THEN NoType
  ELSE IF code = 127 THEN FT(<<>>, <<"i32">>)
  ELSE TypeSection[code + 1]
Opener(op, code) == Ins(op, 0, BlockTypeOf(code), <<code>>)
I32Const(byte) == Ins(OpcodeI32Const, 0, NoType, <<byte>>)
MemLoad(op, offsetBytes) == Ins(op, 0, NoType, <<2>> \o offsetBytes)

\* Operand types consumed and produced by the instructions without control effect.
Signature(ins) ==
  CASE ins.op = OpcodeI32Const -> FT(<<>>, <<"i32">>)
    [] ins.op = OpcodeI64Const -> FT(<<>>, <<"i64">>)
    [] ins.op = OpcodeF32Const -> FT(<<>>, <<"f32">>)
    [] ins.op = OpcodeF64Const -> FT(<<>>, <<"f64">>)
    [] ins.op \in {OpcodeI32Add, OpcodeI32LtS} -> FT(<<"i32", "i32">>, <<"i32">>)
    [] ins.op = 192 -> FT(<<"i32">>, <<"i32">>)
    [] ins.op = OpcodeLocalGet -> FT(<<>>, <<"i32">>)
    [] ins.op = OpcodeLocalSet -> FT(<<"i32">>, <<>>)
    [] ins.op = OpcodeLocalTee -> FT(<<"i32">>, <<"i32">>)
    [] ins.op = OpcodeI32Load -> FT(<<"i32">>, <<"i32">>)
    [] ins.op \in LoadOps \ {OpcodeI32Load} ->
         FT(<<"i32">>, <<IF LoadKind(ins.op)[2] \in {"i32", "32"} THEN "i32"
                         ELSE IF LoadKind(ins.op)[2] \in {"i64", "64"} THEN "i64"
                         ELSE LoadKind(ins.op)[2]>>)
    [] ins.op = OpcodeCall -> TypeSection[FunctionSection[ins.x + 1] + 1]
    [] ins.op = OpcodeNop -> NoType
    [] ins.op = OpcodeDrop -> FT(<<"?">>, <<>>)

\* The validator: the operand types and the open constructs.  Each open construct
\* also remembers the control frame its opener pushed in the lowering: the frame's
\* following block (NoBlock when it pushed none), its loop header and its
\* originalStackLenWithoutParam.
NoFrame == controlFrame(0, 0, NoBlock, NoBlock, FT(<<>>, <<>>), <<>>)
VFrame(kind, bt, height, pushed) ==
  [kind |-> kind, bt |-> bt, height |-> height, unreach |-> FALSE,
   frame |-> pushed.followingBlock,
   hdr |-> IF pushed.kind = controlFrameKindLoop THEN pushed.blk ELSE NoBlock,
   orig |-> pushed.originalStackLenWithoutParam]
VTop(v) == Last(v.ctrls)

RECURSIVE VPop(_, _)
\* Pops the operand types tps (the last one first); ok tells whether they were there.
VPop(v, tps) ==
  IF tps = <<>> THEN [ok |-> TRUE, v |-> v]
  ELSE IF Len(v.vals) = VTop(v).height
    THEN IF VTop(v).unreach THEN VPop(v, Front(tps)) ELSE [ok |-> FALSE, v |-> v]
  ELSE IF Last(v.vals) = Last(tps) \/ Last(v.vals) = "?" \/ Last(tps) = "?"
    THEN VPop([v EXCEPT !.vals = Front(@)], Front(tps))
  ELSE [ok |-> FALSE, v |-> v]

VPush(v, tps) == [v EXCEPT !.vals = @ \o tps]
VUnreachable(v) ==
  [v EXCEPT !.vals = Take(@, VTop(v).height), !.ctrls[Len(v.ctrls)].unreach = TRUE]
VLabelTypes(f) == IF f.kind = "loop" THEN f.bt.Params ELSE f.bt.Results
VFail(v) == [ok |-> FALSE, v |-> v]

\* One step of validation: whether ins may come next, and the validator after it.
\* pushed is the control frame the lowering of an opener pushed.
VStep(v, ins, pushed) ==
  LET op == ins.op
      kindOf == IF op = OpcodeBlock THEN "block" ELSE IF op = OpcodeLoop THEN "loop" ELSE "if"
      open(p) == [ok |-> p.ok,
                  v |-> VPush([p.v EXCEPT !.ctrls = Append(@, VFrame(kindOf, ins.bt,
                                                     Len(p.v.vals), pushed))],
                              ins.bt.Params)]
      depth == Len(v.ctrls) - 1
  IN IF v.done THEN VFail(v)
     ELSE CASE op \in {OpcodeBlock, OpcodeLoop} -> open(VPop(v, ins.bt.Params))
       [] op = OpcodeIf -> open(VPop(v, ins.bt.Params \o <<"i32">>))
       [] op = OpcodeElse ->
            LET p == VPop(v, VTop(v).bt.Results)
            IN IF VTop(v).kind # "if" \/ ~p.ok \/ Len(p.v.vals) # VTop(v).height THEN VFail(v)
               ELSE [ok |-> TRUE,
                     v |-> VPush([p.v EXCEPT !.ctrls[Len(v.ctrls)].kind = "else",
                                             !.ctrls[Len(v.ctrls)].unreach = FALSE],
                                 VTop(v).bt.Params)]
       [] op = OpcodeEnd ->
            LET p == VPop(v, VTop(v).bt.Results)
            IN IF ~p.ok \/ Len(p.v.vals) # VTop(v).height THEN VFail(v)
               ELSE IF VTop(v).kind = "if" /\ VTop(v).bt.Params # VTop(v).bt.Results
                 THEN VFail(v)
               ELSE [ok |-> TRUE,
                     v |-> [VPush([p.v EXCEPT !.ctrls = Front(@)], VTop(v).bt.Results)
                            EXCEPT !.done = (depth = 0)]]
       [] op = OpcodeBr ->
            IF ins.x > depth THEN VFail(v)
            ELSE LET p == VPop(v, VLabelTypes(v.ctrls[Len(v.ctrls) - ins.x]))
                 IN [ok |-> p.ok, v |-> VUnreachable(p.v)]
       [] op = OpcodeBrIf ->
            IF ins.x > depth THEN VFail(v)
            ELSE LET lt == VLabelTypes(v.ctrls[Len(v.ctrls) - ins.x])
                     p == VPop(v, lt \o <<"i32">>)
                 IN [ok |-> p.ok, v |-> VPush(p.v, lt)]
       [] op = OpcodeReturn ->
            LET p == VPop(v, v.ctrls[1].bt.Results)
            IN [ok |-> p.ok, v |-> VUnreachable(p.v)]
       [] op = OpcodeUnreachable -> [ok |-> TRUE, v |-> VUnreachable(v)]
       [] OTHER ->
            LET p == VPop(v, Signature(ins).Params)
            IN [ok |-> p.ok, v |-> VPush(p.v, Signature(ins).Results)]

\* --------------------------------------------------------- the bodies
\* The LEB128 bytes of the largest memarg offset, 0xFFFFFFFF.
MaxOffset == <<255, 255, 255, 255, 15>>

\* The instructions the generator chooses from.
Alphabet ==
  {I32Const(0), Ins(OpcodeF32Const, 0, NoType, <<0, 0, 0, 0>>),
   Simple(OpcodeI32Add), WithIndex(OpcodeLocalGet, 0), WithIndex(OpcodeLocalSet, 0),
   Simple(OpcodeLocalTee), Simple(192),
   MemLoad(OpcodeI32Load, <<0>>), MemLoad(OpcodeI32Load, MaxOffset),
   MemLoad(OpcodeI64Load, <<4>>),
   Opener(OpcodeBlock, 64), Opener(OpcodeLoop, 64), Opener(OpcodeIf, 64),
   Opener(OpcodeIf, 1),
   Simple(OpcodeElse), Simple(OpcodeEnd),
   WithIndex(OpcodeBr, 0), WithIndex(OpcodeBr, 1), WithIndex(OpcodeBrIf, 0),
   Simple(OpcodeNop), Simple(OpcodeReturn), Simple(OpcodeUnreachable),
   WithIndex(OpcodeCall, 1), WithIndex(OpcodeCall, 2), Simple(OpcodeDrop)}

\* A scenario: the type of the function (an index into the type section) and the
\* instructions its body starts with.
Scenario(typ, body) == [typ |-> typ, body |-> body]

Scenarios ==
  { Scenario(0, <<>>), Scenario(2, <<>>),
    \* add two constants
    Scenario(2, <<I32Const(3), I32Const(4), Simple(OpcodeI32Add), Simple(OpcodeEnd)>>),
    \* conditional select of constants
    Scenario(2, <<WithIndex(OpcodeLocalGet, 0), Opener(OpcodeIf, 127), I32Const(1),
                  Simple(OpcodeElse), I32Const(2), Simple(OpcodeEnd), Simple(OpcodeEnd)>>),
    \* simple counted loop
    Scenario(2, <<I32Const(0), Opener(OpcodeLoop, 1), I32Const(1), Simple(OpcodeI32Add),
                  WithIndex(OpcodeLocalTee, 0), I32Const(10), Simple(OpcodeI32LtS),
                  WithIndex(OpcodeBrIf, 0), Simple(OpcodeEnd), Simple(OpcodeEnd)>>),
    \* bounds-checked load: i32.const 0x1000; i32.load offset=4
    Scenario(2, <<Ins(OpcodeI32Const, 0, NoType, <<128, 32>>),
                  MemLoad(OpcodeI32Load, <<4>>), Simple(OpcodeEnd)>>),
    \* unreachable region
    Scenario(2, <<Simple(OpcodeUnreachable), I32Const(5), I32Const(7),
                  Simple(OpcodeI32Add), Simple(OpcodeEnd)>>),
    \* call followed by a dependent load
    Scenario(2, <<WithIndex(OpcodeCall, 0), MemLoad(OpcodeI32Load, <<0>>),
                  Simple(OpcodeEnd)>>),
    \* a load, then a call, in one block
    Scenario(2, <<I32Const(0), MemLoad(OpcodeI32Load, <<0>>), WithIndex(OpcodeCall, 1)>>),
    \* a block nested in the dead code that follows a branch, in a loop
    Scenario(0, <<Opener(OpcodeLoop, 64), WithIndex(OpcodeBr, 0), Opener(OpcodeBlock, 64),
                  Simple(OpcodeEnd)>>),
    \* an if without else whose type has a parameter and a result
    Scenario(2, <<I32Const(1), I32Const(2), I32Const(0), Opener(OpcodeIf, 1)>>),
    \* a block with a result that continues after an inner block ended in dead code
    Scenario(2, <<Opener(OpcodeBlock, 127), Opener(OpcodeBlock, 64), I32Const(5), I32Const(1),
                  WithIndex(OpcodeBrIf, 1), WithIndex(OpcodeBr, 0),
                  Opener(OpcodeBlock, 64), Simple(OpcodeEnd), Simple(OpcodeEnd)>>),
    \* two operands that lie under a block which ends in dead code
    Scenario(0, <<Opener(OpcodeBlock, 64), I32Const(1), I32Const(2), Opener(OpcodeBlock, 64),
                  I32Const(1), WithIndex(OpcodeBrIf, 1), WithIndex(OpcodeBr, 0),
                  Opener(OpcodeBlock, 64), Simple(OpcodeEnd), Simple(OpcodeEnd)>>),
    \* two blocks in a row in dead code
    Scenario(0, <<Simple(OpcodeUnreachable), Opener(OpcodeBlock, 64), Simple(OpcodeEnd),
                  Opener(OpcodeBlock, 64)>>),
    \* an if without else, in a block, whose then branch ends in dead code
    Scenario(0, <<Opener(OpcodeBlock, 64), I32Const(0), Opener(OpcodeIf, 64),
                  WithIndex(OpcodeBr, 0), Opener(OpcodeBlock, 64), Simple(OpcodeEnd)>>),
    \* the function's result under a block which ends in dead code
    Scenario(2, <<Opener(OpcodeBlock, 64), I32Const(1), Opener(OpcodeBlock, 64), I32Const(1),
                  WithIndex(OpcodeBrIf, 1), WithIndex(OpcodeBr, 0), Opener(OpcodeBlock, 64),
                  Simple(OpcodeEnd), Simple(OpcodeEnd)>>),
    \* a loop that takes as its parameter the value under a block which ends in
    \* dead code
    Scenario(2, <<Opener(OpcodeBlock, 64), I32Const(1), Opener(OpcodeBlock, 64), I32Const(1),
                  WithIndex(OpcodeBrIf, 1), WithIndex(OpcodeBr, 0), Opener(OpcodeBlock, 64),
                  Simple(OpcodeEnd), Simple(OpcodeEnd), Opener(OpcodeLoop, 1)>>),
    \* a block whose type has a parameter and a result
    Scenario(2, <<I32Const(1), I32Const(2), Opener(OpcodeBlock, 1)>>) }

\* ------------------------------------------------------------- actions
NoIns == Simple(255)
NoConstruct == VFrame("none", NoType, 0, NoFrame)
ReadPanics == {"leb128", "block type", "read memory align", "read memory offset", "read float"}

entryBlk == 1
ReturnBlock == 2

\* No call engine has been made: the state of the engine while a body is lowered.
NoEngine ==
  /\ stack = <<>>
  /\ stackTop = 0
  /\ sizeOfParamResultSlice = 0
  /\ execCtx = <<>>
  /\ stackBytes = <<>>
  /\ heapEnd = 0
  /\ paramResultSlice = <<>>
  /\ callPc = [fn |-> "", at |-> "none", sp |-> 0]
  /\ callReturn = <<>>
  /\ grows = 0

\* ToErrno has not been called.
\* No call into jsfs is modelled: no file is open.
NoFs ==
  /\ openedFiles = <<>>
  /\ lastFD = 0
  /\ cwd = "/"
  /\ fsCall = <<>>

NoGojs ==
  /\ gojsErr = <<>>
  /\ gojsPc = "none"
  /\ gojsErrno = ""
  /\ NoFs

\* The compiler made for the function whose body starts with the scenario sc and
\* goes on with MaxFree - spent instructions at most.
CompilerStarts(sc, spent) ==
    LET typ == TypeSection[sc.typ + 1]
        nparams == Len(typ.Params)
        nres == Len(typ.Results)
        params == [i \in 1..nparams |-> 2 + i]
        localInit == 3 + nparams + nres
        \* the function's local 0: its first parameter, or a zero-initialised local
        entry == [NewBlock EXCEPT
                    !.params = <<execCtxPtrValue, moduleCtxPtrValue>> \o params,
                    !.instrs = IF nparams > 0 THEN <<>>
                               ELSE <<Instr("Iconst32", <<>>, NoBlock, Zeros(32), "", <<localInit>>)>>,
                    !.defs[localVariable(0)] = IF nparams > 0 THEN 3 ELSE localInit]
        ret == [NewBlock EXCEPT !.params = [i \in 1..nres |-> 2 + nparams + i]]
    IN /\ wasmFunctionBody = <<>>
       /\ wasmFunctionTyp = sc.typ
       /\ values = <<>>
       /\ valuesSpare = <<>>
       /\ controlFrames = <<>>
       /\ unreachable = FALSE
       /\ unreachableDepth = 0
       /\ pc = 0
       /\ blocks = <<entry, ret>>
       /\ currentBlock = entryBlk
       /\ nextValue = localInit + 1
       /\ panicked = ""
       /\ validator = [vals |-> <<>>, done |-> FALSE, started |-> FALSE,
                       ctrls |-> <<VFrame("func", typ, 0,
                                           controlFrame(controlFrameKindFunction, 0, NoBlock,
                                                        ReturnBlock, typ, <<>>))>>]
       /\ script = sc.body
       /\ free = spent
       /\ last = [op |-> 255, aligned |-> FALSE, ins |-> NoIns, construct |-> NoConstruct,
                  pre |-> <<>>]
       /\ exec = <<>>

\* The compiler made for the function whose body starts with the scenario sc.
NewCompiler(sc) == CompilerStarts(sc, 0)

Init == (\E sc \in Scenarios : NewCompiler(sc)) /\ NoEngine /\ NoGojs

Commit(r) ==
  /\ wasmFunctionBody' = r.body
  /\ wasmFunctionTyp' = r.typ
  /\ values' = r.values
  /\ valuesSpare' = r.spare
  /\ controlFrames' = r.controlFrames
  /\ unreachable' = r.unreachable
  /\ unreachableDepth' = r.unreachableDepth
  /\ pc' = r.pc
  /\ blocks' = r.blocks
  /\ currentBlock' = r.cur
  /\ nextValue' = r.nextValue
  /\ panicked' = r.panic

\* The prologue of lowerBody: the entry block is sealed and the frame of the
\* function is pushed.
lowerBodyEntry ==
  /\ ~validator.started
  /\ Commit(ctrlPush(Seal(Compiler, entryBlk),
                     controlFrame(controlFrameKindFunction, 0, NoBlock, ReturnBlock,
                                  TypeSection[wasmFunctionTyp + 1], <<>>)))
  /\ validator' = [validator EXCEPT !.started = TRUE]
  /\ UNCHANGED <<script, free, last, exec>>
  /\ UNCHANGED <<engineVars, gojsVars>>

Lowering == validator.started /\ panicked = ""
\* lowerBody has left its loop.
Finished == Lowering /\ validator.done /\ pc >= Len(wasmFunctionBody)

\* The instructions the body may continue with.
NextIns ==
  IF script # <<>> THEN {script[1]}
  ELSE IF free < MaxFree THEN Alphabet
  ELSE {}

WithinBounds(v) ==
  script # <<>> \/ (Len(v.vals) <= MaxStack /\ Len(v.ctrls) - 1 <= MaxNest)

\* One iteration of the loop of lowerBody on body b: the case of lowerOpcode that
\* op selects (lowered), then pc++.  ins is the instruction that starts at pc when
\* pc is at the start of an instruction (aligned).
Iterate(b, lowered, ins, aligned) ==
  LET c == [Compiler EXCEPT !.body = b]
      op == b[pc + 1]
      r == IF lowered.panic = "" THEN [lowered EXCEPT !.pc = @ + 1] ELSE lowered
      pushed == aligned /\ op \in {OpcodeBlock, OpcodeLoop, OpcodeIf}
                  /\ ~unreachable /\ r.panic = ""
      frame == IF pushed THEN Last(r.controlFrames) ELSE NoFrame
  IN /\ ~(r.panic \in ReadPanics /\ ~aligned /\ ~validator.done)
     /\ Commit(r)
     /\ validator' = IF aligned THEN VStep(validator, ins, frame).v ELSE validator
     /\ script' = IF aligned /\ script # <<>> THEN Tail(script) ELSE script
     /\ free' = IF aligned /\ script = <<>> THEN free + 1 ELSE free
     /\ last' = [op |-> op, aligned |-> aligned, ins |-> ins,
                 construct |-> IF aligned THEN VTop(validator) ELSE NoConstruct,
                 pre |-> c]
     /\ exec' = <<>>
     /\ UNCHANGED <<engineVars, gojsVars>>

\* The loop of lowerBody dispatching an opcode of the set ops to its case lower.
Dispatch(ops, lower(_, _)) ==
  /\ TRUE
  /\ \/ /\ pc = Len(wasmFunctionBody)
        /\ ~validator.done
        /\ \E ins \in NextIns :
             LET b == wasmFunctionBody \o Encode(ins)
                 v == VStep(validator, ins, NoFrame)
             IN /\ ins.op \in ops
                /\ v.ok
                /\ WithinBounds(v.v)
                /\ Iterate(b, lower([Compiler EXCEPT !.body = b], ins.op), ins, TRUE)
     \/ /\ pc < Len(wasmFunctionBody)
        /\ wasmFunctionBody[pc + 1] \in ops
        /\ Iterate(wasmFunctionBody, lower(Compiler, wasmFunctionBody[pc + 1]), NoIns, FALSE)

\* ------------------------------------------------- running a lowered load
\* The runtime values the instructions of a load are run with: the base address (an
\* i32) and the length of the memory in bytes (a whole number of 64KiB pages).
Ones(n) == [i \in 1..n |-> 1]
BaseAddrs == {Zeros(32), BitsOf(4096, 32), BitsOf(65532, 32), BitsOf(65536, 32), Ones(32)}
MemLens == {Zeros(32), BitsOf(65536, 32), BitsOf(131072, 32)}

\* The instructions the last iteration inserted into the current block.
Emitted == Drop(blocks[currentBlock].instrs, Len(last.pre.blocks[currentBlock].instrs))

\* The constants that define value v, if an iconst32 defines it.
ConstOf(v) ==
  UNION {{i.imm : i \in {blocks[k].instrs[j] : j \in 1..Len(blocks[k].instrs)}
                      \cap {i \in {blocks[k].instrs[j] : j \in 1..Len(blocks[k].instrs)} :
                              i.op = "Iconst32" /\ i.rets = <<v>>}}
         : k \in 1..Len(blocks)}
BasesOf(v) == IF ConstOf(v) = {} THEN BaseAddrs ELSE ConstOf(v)

\* The runtime value of v: what an instruction run so far computed (env), else
\* the value outside that v stands for in this position.
Val(env, v, outside) == IF v \in DOMAIN env /\ env[v] # <<>> THEN env[v] ELSE outside
Bool(b) == IF b THEN ZeroExt(<<1>>, 32) ELSE Zeros(32)
Ran(exited, loaded) == [exited |-> exited, loaded |-> loaded]

RECURSIVE Run(_, _, _, _)
\* Runs the instructions instrs in order from the environment env with base address
\* base and memory length memLen: whether they exit with
\* ExitCodeMemoryOutOfBounds, and whether they reach the load.
Run(instrs, env, base, memLen) ==
  IF instrs = <<>> THEN Ran(FALSE, FALSE)
  ELSE Bind(instrs[1], LAMBDA i :
    LET rest == Tail(instrs)
        is(op, aux) == i.op = op /\ i.aux = aux
        set(x) == Run(rest, [env EXCEPT ![i.rets[1]] = x], base, memLen)
    IN CASE is("Iconst64", "") -> set(i.imm)
         [] is("UExtend", "") -> set(ZeroExt(Val(env, i.args[1], base), 64))
         [] is("Uload32", "LocalMemoryLen") -> set(ZeroExt(memLen, 64))
         [] is("Load", "LocalMemoryBase") -> set(Zeros(64))
         [] is("Iadd", "") ->
              set(AddWrap(Val(env, i.args[1], Zeros(64)), Val(env, i.args[2], Zeros(64))))
         [] is("Icmp", "ge_u") ->
              set(Bool(GeU(Val(env, i.args[1], ZeroExt(memLen, 64)), Val(env, i.args[2], Zeros(64)))))
         [] is("ExitIfNotZeroWithCode", "ExitCodeMemoryOutOfBounds") ->
              IF ~IsZero(Val(env, i.args[2], Zeros(32))) THEN Ran(TRUE, FALSE)
              ELSE Run(rest, env, base, memLen)
         [] OTHER -> Ran(FALSE, TRUE))

\* The machine runs the instructions of the load just lowered.
Execute ==
  /\ Lowering
  /\ exec = <<>>
  /\ last.aligned /\ last.op \in LoadOps /\ ~last.pre.unreachable
  /\ \E base \in BasesOf(Last(last.pre.values)), memLen \in MemLens :
       exec' = [base |-> base, memLen |-> memLen, offset |-> Last(Emitted).imm,
                ran |-> Run(Emitted, [v \in 1..nextValue |-> <<>>], base, memLen)]
  /\ UNCHANGED <<wasmFunctionBody, wasmFunctionTyp, values, valuesSpare, controlFrames,
                 unreachable, unreachableDepth, pc, blocks, currentBlock, nextValue,
                 panicked, validator, script, free, last>>
  /\ UNCHANGED <<engineVars, gojsVars>>

LowerConst == Lowering /\ Dispatch(ConstOps, lowerConst)
LowerBinary == Lowering /\ Dispatch(BinaryOps, lowerBinary)
LowerExtend == Lowering /\ Dispatch(ExtendOps, lowerExtend)
LowerLocalGet == Lowering /\ Dispatch({OpcodeLocalGet}, LAMBDA c, op : lowerLocalGet(c))
LowerLocalSet == Lowering /\ Dispatch({OpcodeLocalSet}, LAMBDA c, op : lowerLocalSet(c))
LowerLoad == Lowering /\ Dispatch(LoadOps, lowerLoad)
LowerBlock == Lowering /\ Dispatch({OpcodeBlock}, LAMBDA c, op : lowerBlock(c))
LowerLoop == Lowering /\ Dispatch({OpcodeLoop}, LAMBDA c, op : lowerLoop(c))
LowerIf == Lowering /\ Dispatch({OpcodeIf}, LAMBDA c, op : lowerIf(c))
LowerElse == Lowering /\ Dispatch({OpcodeElse}, LAMBDA c, op : lowerElse(c))
LowerEnd == Lowering /\ Dispatch({OpcodeEnd}, LAMBDA c, op : lowerEnd(c))
LowerBr == Lowering /\ Dispatch({OpcodeBr}, LAMBDA c, op : lowerBr(c))
LowerBrIf == Lowering /\ Dispatch({OpcodeBrIf}, LAMBDA c, op : lowerBrIf(c))
LowerNop == Lowering /\ Dispatch({OpcodeNop}, LAMBDA c, op : lowerNop(c))
LowerReturn == Lowering /\ Dispatch({OpcodeReturn}, LAMBDA c, op : lowerReturn(c))
LowerUnreachable == Lowering /\ Dispatch({OpcodeUnreachable}, LAMBDA c, op : lowerUnreachable(c))
LowerCall == Lowering /\ Dispatch({OpcodeCall}, LAMBDA c, op : lowerCall(c))
LowerDrop == Lowering /\ Dispatch({OpcodeDrop}, LAMBDA c, op : lowerDrop(c))
LowerUnsupported == Lowering /\ Dispatch((0..255) \ SupportedOps, LAMBDA c, op : lowerUnsupported(c))

Next ==
  \/ lowerBodyEntry
  \/ LowerConst \/ LowerBinary \/ LowerExtend \/ LowerLocalGet \/ LowerLocalSet
  \/ LowerLoad \/ LowerBlock \/ LowerLoop \/ LowerIf \/ LowerElse \/ LowerEnd
  \/ LowerBr \/ LowerBrIf \/ LowerNop \/ LowerReturn \/ LowerUnreachable
  \/ LowerCall \/ LowerDrop \/ LowerUnsupported
  \/ Execute

Spec == Init /\ [][Next]_vars

\* ------------------------------------------------- reuse of the state
\* The compiler is used for one function after another: the lowering state is
\* reset, keeping its allocations, and the builder starts anew.

\* How many instructions beyond its scenario a body has before the state is
\* reused.
MaxFreeReused == 1

\* A reset that forgets how deep in dead code the last lowering was.
resetKeepsDepth(c) ==
  [c EXCEPT !.values = <<>>, !.spare = c.values \o c.spare, !.controlFrames = <<>>,
            !.pc = 0, !.unreachable = FALSE]

\* loweringState.reset: values[:0] keeps the backing array and what it holds.
reset(c) ==
  [c EXCEPT !.values = <<>>, !.spare = c.values \o c.spare, !.controlFrames = <<>>,
            !.pc = 0, !.unreachable = FALSE, !.unreachableDepth = 0]

\* The compiler with a fresh lowering state and builder for the function of
\* type typ whose body is body.
FreshCompiler(typ, body) ==
  LET ft == TypeSection[typ + 1]
      nparams == Len(ft.Params)
      nres == Len(ft.Results)
      localInit == 3 + nparams + nres
      entry == [NewBlock EXCEPT
                  !.params = <<execCtxPtrValue, moduleCtxPtrValue>>
                               \o [i \in 1..nparams |-> 2 + i],
                  !.instrs = IF nparams > 0 THEN <<>>
                             ELSE <<Instr("Iconst32", <<>>, NoBlock, Zeros(32), "", <<localInit>>)>>,
                  !.defs[localVariable(0)] = IF nparams > 0 THEN 3 ELSE localInit]
      ret == [NewBlock EXCEPT !.params = [i \in 1..nres |-> 2 + nparams + i]]
  IN [body |-> body, typ |-> typ, values |-> <<>>, spare |-> <<>>, controlFrames |-> <<>>,
      unreachable |-> FALSE, unreachableDepth |-> 0, pc |-> 0, blocks |-> <<entry, ret>>,
      cur |-> entryBlk, nextValue |-> localInit + 1, panic |-> ""]

\* lowerOpcode: the case of the switch that op selects.
lowerOpcode(c, op) ==
  CASE op \in ConstOps -> lowerConst(c, op)
    [] op \in BinaryOps -> lowerBinary(c, op)
    [] op \in ExtendOps -> lowerExtend(c, op)
    [] op = OpcodeLocalGet -> lowerLocalGet(c)
    [] op = OpcodeLocalSet -> lowerLocalSet(c)
    [] op \in LoadOps -> lowerLoad(c, op)
    [] op = OpcodeBlock -> lowerBlock(c)
    [] op = OpcodeLoop -> lowerLoop(c)
    [] op = OpcodeIf -> lowerIf(c)
    [] op = OpcodeElse -> lowerElse(c)
    [] op = OpcodeEnd -> lowerEnd(c)
    [] op = OpcodeBr -> lowerBr(c)
    [] op = OpcodeBrIf -> lowerBrIf(c)
    [] op = OpcodeNop -> lowerNop(c)
    [] op = OpcodeReturn -> lowerReturn(c)
    [] op = OpcodeUnreachable -> lowerUnreachable(c)
    [] op = OpcodeCall -> lowerCall(c)
    [] op = OpcodeDrop -> lowerDrop(c)
    [] OTHER -> lowerUnsupported(c)

\* The loop of lowerBody run from c until pc reaches n, or a panic.
RECURSIVE lowerBodyUpTo(_, _)
lowerBodyUpTo(c, n) ==
  IF c.panic # "" \/ c.pc >= n \/ c.pc >= Len(c.body) THEN c
  ELSE lowerBodyUpTo(Bind(lowerOpcode(c, c.body[c.pc + 1]), LAMBDA r :
                       IF r.panic = "" THEN [r EXCEPT !.pc = @ + 1] ELSE r), n)

\* lowerBody of a fresh compiler on the body at hand, up to pc n.
lowerBodyFresh(n) ==
  lowerBodyUpTo(ctrlPush(Seal(FreshCompiler(wasmFunctionTyp, wasmFunctionBody), entryBlk),
                         controlFrame(controlFrameKindFunction, 0, NoBlock, ReturnBlock,
                                      TypeSection[wasmFunctionTyp + 1], <<>>)), n)

ReuseInit ==
  /\ \E sc \in Scenarios : CompilerStarts(sc, MaxFree - MaxFreeReused)
  /\ NoEngine
  /\ NoGojs

\* Compiler.Init for the next function, here the same function once more: the
\* lowering state is reset and the builder is a fresh one.
Reuse ==
  /\ Commit(Bind(reset(Compiler), LAMBDA r :
       [FreshCompiler(wasmFunctionTyp, wasmFunctionBody) EXCEPT
          !.values = r.values, !.spare = r.spare, !.controlFrames = r.controlFrames,
          !.pc = r.pc, !.unreachable = r.unreachable,
          !.unreachableDepth = r.unreachableDepth]))
  /\ validator' = [validator EXCEPT !.started = FALSE]
  /\ last' = [op |-> NoIns.op, aligned |-> FALSE, ins |-> NoIns, construct |-> NoConstruct,
              pre |-> Compiler]
  /\ exec' = <<>>
  /\ UNCHANGED <<script, free>>
  /\ UNCHANGED <<engineVars, gojsVars>>

ReuseNext ==
  \/ lowerBodyEntry
  \/ LowerConst \/ LowerBinary \/ LowerExtend \/ LowerLocalGet \/ LowerLocalSet
  \/ LowerLoad \/ LowerBlock \/ LowerLoop \/ LowerIf \/ LowerElse \/ LowerEnd
  \/ LowerBr \/ LowerBrIf \/ LowerNop \/ LowerReturn \/ LowerUnreachable
  \/ LowerCall \/ LowerDrop \/ LowerUnsupported
  \/ Execute
  \/ Reuse

ReuseSpec == ReuseInit /\ [][ReuseNext]_vars

\* ------------------------------------------------------ the call engine
\* call_engine.go: the api.Function of a compiled function.  The compiled code
\* (entrypoint, afterStackGrowEntrypoint) is the environment: it runs until it
\* exits, leaving an exit code in execCtx.

\* The exits with ExitCodeGrowStack whose stack use, required size and place of
\* the new stack are chosen freely; later ones use no more stack, ask for the
\* smallest size and get the new stack right after the old one.
MaxVaried == 2

initialStackSize == 512
callStackCeiling == 5000000

ExitCodeOK == "ExitCodeOK"
ExitCodeGrowStack == "ExitCodeGrowStack"
ExitCodeUnreachable == "ExitCodeUnreachable"
ExitCodeMemoryOutOfBounds == "ExitCodeMemoryOutOfBounds"
\* An exit code the switch of CallWithStack has no case for.
ExitCodeOther == "ExitCodeOther"
ExitCodes == {ExitCodeOK, ExitCodeGrowStack, ExitCodeUnreachable, ExitCodeMemoryOutOfBounds,
              ExitCodeOther}

NilError == "nil"
ErrRuntimeUnreachable == "unreachable"
ErrRuntimeOutOfBoundsMemoryAccess == "out of bounds memory access"
ErrRuntimeStackOverflow == "stack overflow"

\* A []uint64: nil, or a slice with its elements.
NilSlice == [nil |-> TRUE, elems |-> <<>>]
Slice(elems) == [nil |-> FALSE, elems |-> elems]

\* A stack top that is the address of the last byte of s as it is.
lastByteOfStack(s) == s.Data + s.Len - 1

\* alignedStackTop: the address of the last byte of s, rounded down to 16 bytes.
alignedStackTop(s) ==
  LET stackAddr == s.Data + s.Len - 1
  IN stackAddr - (stackAddr % 16)

\* make([]byte, n): the allocator places the slice pad bytes after the last one.
MakeBytes(n, pad) == [Data |-> heapEnd + pad, Len |-> n]

\* The inputs: the sizes of the parameter/result slice, the parameters of Call,
\* the values the compiled code returns, where the allocator places a slice, and
\* what the compiled code leaves when it asks for a larger stack.
SliceSizes == {0, 1, 2}
ParamLists == {<<>>, <<7>>, <<7, 8>>}
ResultValues == {0, 9}
Pads == {0, 8}
HeapStart == 8 * initialStackSize
UsedSizes == {0, 16, 32}
RequiredSizes == {16, callStackCeiling}
Fills == {1, 200}

\* callEngine.init of an engine whose parameter/result slice has size elements.
init(size, pad) ==
  LET stackSize == IF size > initialStackSize THEN size ELSE initialStackSize
      s == [Data |-> HeapStart + pad, Len |-> stackSize]
  IN /\ sizeOfParamResultSlice = size
     /\ stack = s
     /\ stackTop = alignedStackTop(s)
     /\ execCtx = [exitCode |-> ExitCodeOK, stackBottomPtr |-> s.Data,
                   goCallReturnAddress |-> 0, stackPointerBeforeGrow |-> 0,
                   stackGrowRequiredSize |-> 0]
     /\ stackBytes = <<>>
     /\ heapEnd = s.Data + s.Len
     /\ paramResultSlice = NilSlice
     /\ callPc = [fn |-> "", at |-> "made", sp |-> 0]
     /\ callReturn = <<>>
     /\ grows = 0

CallInit ==
  /\ NewCompiler(Scenario(0, <<>>))
  /\ \E size \in SliceSizes, pad \in Pads : init(size, pad)
  /\ NoGojs

\* copy(paramResultSlice, params) into a fresh slice of n elements.
CopyParams(n, params) == Slice([i \in 1..n |-> IF i <= Len(params) THEN params[i] ELSE 0])

\* A growStack that doubles the stack without adding the size asked for.
growStackDoubles(pad) ==
  LET currentLen == stack.Len
  IN IF callStackCeiling < currentLen
       THEN [err |-> ErrRuntimeStackOverflow, newSP |-> 0, stack |-> stack,
             stackTop |-> stackTop, stackBottomPtr |-> execCtx.stackBottomPtr,
             stackBytes |-> stackBytes, heapEnd |-> heapEnd]
     ELSE LET newLen == 2 * currentLen
              newStack == MakeBytes(newLen, pad)
              relSp == stackTop - execCtx.stackPointerBeforeGrow
              newTop == alignedStackTop(newStack)
              newSP == newTop - relSp
          IN [err |-> NilError, newSP |-> newSP, stack |-> newStack,
              stackTop |-> newTop, stackBottomPtr |-> newStack.Data,
              stackBytes |-> [a \in newSP..(newTop - 1) |->
                                stackBytes[(stackTop - relSp) + (a - newSP)]],
              heapEnd |-> newStack.Data + newLen]

\* growStack: the error, the new stack pointer and the fields it leaves.
growStack(pad) ==
  LET currentLen == stack.Len
  IN IF callStackCeiling < currentLen
       THEN [err |-> ErrRuntimeStackOverflow, newSP |-> 0, stack |-> stack,
             stackTop |-> stackTop, stackBottomPtr |-> execCtx.stackBottomPtr,
             stackBytes |-> stackBytes, heapEnd |-> heapEnd]
     ELSE LET newLen == 2 * currentLen + execCtx.stackGrowRequiredSize
              newStack == MakeBytes(newLen, pad)
              relSp == stackTop - execCtx.stackPointerBeforeGrow
              newTop == alignedStackTop(newStack)
              newSP == newTop - relSp
          IN [err |-> NilError, newSP |-> newSP, stack |-> newStack,
              stackTop |-> newTop, stackBottomPtr |-> newStack.Data,
              stackBytes |-> [a \in newSP..(newTop - 1) |->
                                stackBytes[(stackTop - relSp) + (a - newSP)]],
              heapEnd |-> newStack.Data + newLen]

\* The error CallWithStack returns for an exit code that ends the call.
ExitError(exitCode) ==
  CASE exitCode = ExitCodeOK -> NilError
    [] exitCode = ExitCodeUnreachable -> ErrRuntimeUnreachable
    [] exitCode = ExitCodeMemoryOutOfBounds -> ErrRuntimeOutOfBoundsMemoryAccess

\* A Call that hands out its slice whatever CallWithStack returned.
CallResultKeepsSlice(err, slice) == [results |-> slice, err |-> err]

\* What Call returns when CallWithStack has returned err.
CallResult(err, slice) ==
  IF err # NilError THEN [results |-> NilSlice, err |-> err]
  ELSE [results |-> slice, err |-> NilError]

\* CallWithStack returns err; when Call made the call, Call returns after it.
ReturnError(err) ==
  /\ callPc' = [callPc EXCEPT !.at = "returned"]
  /\ callReturn' = IF callPc.fn = "Call" THEN CallResult(err, paramResultSlice)
                   ELSE [results |-> <<>>, err |-> err]

\* Call: the slice is made, the parameters copied, and CallWithStack enters the
\* compiled code at the top of the stack.
Call ==
  /\ callPc.at = "made"
  /\ \E params \in ParamLists :
       paramResultSlice' = CopyParams(sizeOfParamResultSlice, params)
  /\ callPc' = [fn |-> "Call", at |-> "entrypoint", sp |-> stackTop]
  /\ UNCHANGED <<stack, stackTop, sizeOfParamResultSlice, execCtx, stackBytes, heapEnd,
                 callReturn, grows>>
  /\ UNCHANGED <<loweringVars, gojsVars>>

\* CallWithStack called with the caller's own slice.
CallWithStack ==
  /\ callPc.at = "made"
  /\ \E params \in ParamLists :
       /\ Len(params) >= sizeOfParamResultSlice
       /\ paramResultSlice' = Slice(params)
  /\ callPc' = [fn |-> "CallWithStack", at |-> "entrypoint", sp |-> stackTop]
  /\ UNCHANGED <<stack, stackTop, sizeOfParamResultSlice, execCtx, stackBytes, heapEnd,
                 callReturn, grows>>
  /\ UNCHANGED <<loweringVars, gojsVars>>

\* The compiled code exits: it leaves the exit code, its results when it ends
\* normally, and its stack pointer, the bytes it has pushed below the stack
\* pointer it was entered with and the size it needs when it asks for a larger
\* stack.
Exits ==
  \E exitCode \in ExitCodes, used \in UsedSizes, required \in RequiredSizes,
     fill \in Fills, r \in ResultValues :
    /\ exitCode = ExitCodeGrowStack
         => (grows >= MaxVaried => used = 0 /\ required = 16 /\ fill = 1)
    /\ exitCode # ExitCodeGrowStack => (used = 0 /\ required = 16 /\ fill = 1)
    /\ exitCode # ExitCodeOK => r = 0
    /\ execCtx' = IF exitCode = ExitCodeGrowStack
                    THEN [execCtx EXCEPT !.exitCode = exitCode,
                                         !.stackPointerBeforeGrow = callPc.sp - used,
                                         !.stackGrowRequiredSize = required,
                                         !.goCallReturnAddress = 1]
                    ELSE [execCtx EXCEPT !.exitCode = exitCode]
    /\ stackBytes' = IF exitCode = ExitCodeGrowStack
                       THEN [a \in (callPc.sp - used)..(stackTop - 1) |->
                               IF a >= callPc.sp THEN stackBytes[a]
                               ELSE (fill + (a - (callPc.sp - used))) % 256]
                       ELSE stackBytes
    /\ paramResultSlice' = IF exitCode = ExitCodeOK
                             THEN Slice([i \in 1..Len(paramResultSlice.elems) |-> r])
                             ELSE paramResultSlice
    /\ grows' = IF exitCode = ExitCodeGrowStack /\ grows <= MaxVaried THEN grows + 1 ELSE grows
    /\ callPc' = [callPc EXCEPT !.at = "switch"]
    /\ UNCHANGED <<stack, stackTop, sizeOfParamResultSlice, heapEnd, callReturn>>
    /\ UNCHANGED <<loweringVars, gojsVars>>

entrypoint == callPc.at = "entrypoint" /\ Exits
afterStackGrowEntrypoint == callPc.at = "afterStackGrowEntrypoint" /\ Exits

\* The cases of the switch on the exit code in the loop of CallWithStack.
CaseExitCodeOK ==
  /\ callPc.at = "switch"
  /\ execCtx.exitCode = ExitCodeOK
  /\ ReturnError(ExitError(execCtx.exitCode))
  /\ UNCHANGED <<stack, stackTop, sizeOfParamResultSlice, execCtx, stackBytes, heapEnd,
                 paramResultSlice, grows>>
  /\ UNCHANGED <<loweringVars, gojsVars>>

\* A case that resumes the compiled code with the exit code left as it was.
CaseExitCodeGrowStackKeepsCode ==
  /\ callPc.at = "switch"
  /\ execCtx.exitCode = ExitCodeGrowStack
  /\ \E pad \in (IF grows <= MaxVaried THEN Pads ELSE {0}) :
       LET g == growStack(pad)
       IN /\ stack' = g.stack
          /\ stackTop' = g.stackTop
          /\ stackBytes' = g.stackBytes
          /\ heapEnd' = g.heapEnd
          /\ execCtx' = [execCtx EXCEPT !.stackBottomPtr = g.stackBottomPtr]
          /\ IF g.err # NilError
               THEN ReturnError(g.err)
               ELSE /\ callPc' = [callPc EXCEPT !.at = "afterStackGrowEntrypoint",
                                                !.sp = g.newSP]
                    /\ UNCHANGED callReturn
  /\ UNCHANGED <<sizeOfParamResultSlice, paramResultSlice, grows>>
  /\ UNCHANGED <<loweringVars, gojsVars>>

\* A case that resumes the compiled code although growStack has failed.
CaseExitCodeGrowStackResumes ==
  /\ callPc.at = "switch"
  /\ execCtx.exitCode = ExitCodeGrowStack
  /\ \E pad \in (IF grows <= MaxVaried THEN Pads ELSE {0}) :
       LET g == growStack(pad)
       IN /\ stack' = g.stack
          /\ stackTop' = g.stackTop
          /\ stackBytes' = g.stackBytes
          /\ heapEnd' = g.heapEnd
          /\ execCtx' = [execCtx EXCEPT !.stackBottomPtr = g.stackBottomPtr,
                                        !.exitCode = ExitCodeOK]
          /\ callPc' = [callPc EXCEPT !.at = "afterStackGrowEntrypoint",
                                      !.sp = IF g.err # NilError THEN callPc.sp ELSE g.newSP]
          /\ UNCHANGED callReturn
  /\ UNCHANGED <<sizeOfParamResultSlice, paramResultSlice, grows>>
  /\ UNCHANGED <<loweringVars, gojsVars>>

CaseExitCodeGrowStack ==
  /\ callPc.at = "switch"
  /\ execCtx.exitCode = ExitCodeGrowStack
  /\ \E pad \in (IF grows <= MaxVaried THEN Pads ELSE {0}) :
       LET g == growStack(pad)
       IN /\ stack' = g.stack
          /\ stackTop' = g.stackTop
          /\ stackBytes' = g.stackBytes
          /\ heapEnd' = g.heapEnd
          /\ IF g.err # NilError
               THEN /\ ReturnError(g.err)
                    /\ execCtx' = [execCtx EXCEPT !.stackBottomPtr = g.stackBottomPtr]
               ELSE /\ execCtx' = [execCtx EXCEPT !.stackBottomPtr = g.stackBottomPtr,
                                                  !.exitCode = ExitCodeOK]
                    /\ callPc' = [callPc EXCEPT !.at = "afterStackGrowEntrypoint",
                                                !.sp = g.newSP]
                    /\ UNCHANGED callReturn
  /\ UNCHANGED <<sizeOfParamResultSlice, paramResultSlice, grows>>
  /\ UNCHANGED <<loweringVars, gojsVars>>

CaseExitCodeUnreachable ==
  /\ callPc.at = "switch"
  /\ execCtx.exitCode = ExitCodeUnreachable
  /\ ReturnError(ExitError(execCtx.exitCode))
  /\ UNCHANGED <<stack, stackTop, sizeOfParamResultSlice, execCtx, stackBytes, heapEnd,
                 paramResultSlice, grows>>
  /\ UNCHANGED <<loweringVars, gojsVars>>

CaseExitCodeMemoryOutOfBounds ==
  /\ callPc.at = "switch"
  /\ execCtx.exitCode = ExitCodeMemoryOutOfBounds
  /\ ReturnError(ExitError(execCtx.exitCode))
  /\ UNCHANGED <<stack, stackTop, sizeOfParamResultSlice, execCtx, stackBytes, heapEnd,
                 paramResultSlice, grows>>
  /\ UNCHANGED <<loweringVars, gojsVars>>

\* default: panic("BUG")
CaseDefault ==
  /\ callPc.at = "switch"
  /\ execCtx.exitCode \notin {ExitCodeOK, ExitCodeGrowStack, ExitCodeUnreachable,
                              ExitCodeMemoryOutOfBounds}
  /\ callPc' = [callPc EXCEPT !.at = "panicked"]
  /\ UNCHANGED <<stack, stackTop, sizeOfParamResultSlice, execCtx, stackBytes, heapEnd,
                 paramResultSlice, callReturn, grows>>
  /\ UNCHANGED <<loweringVars, gojsVars>>

CallNext ==
  \/ Call \/ CallWithStack
  \/ entrypoint \/ afterStackGrowEntrypoint
  \/ CaseExitCodeOK \/ CaseExitCodeGrowStack \/ CaseExitCodeUnreachable
  \/ CaseExitCodeMemoryOutOfBounds \/ CaseDefault

CallSpec == CallInit /\ [][CallNext]_vars

\* The engine of a function with two parameter/result elements: how often the
\* stack grows does not depend on that size.
CallFairInit ==
  /\ NewCompiler(Scenario(0, <<>>))
  /\ \E pad \in Pads : init(2, pad)
  /\ NoGojs

\* The code of CallWithStack takes its next step, and the compiled code, once
\* entered, exits.
CallFairSpec == CallFairInit /\ [][CallNext]_vars /\ WF_vars(CallNext)

\* ------------------------------------------------------------ gojs errno
\* errno.go: the error a syscall of GOOS=js fails with is turned into the
\* *Errno whose message is its code.

\* How many times the error handed to ToErrno is wrapped.
MaxWrap == 2

\* The predefined *Errno values, each the code it holds.
Errnos == {"EBADF", "EEXIST", "EINVAL", "EIO", "EISDIR", "ELOOP", "ENAMETOOLONG", "ENOENT",
           "ENOSYS", "ENOTDIR", "ENOTEMPTY", "ENOTSUP", "EPERM"}

\* The syscall.Errno values ToErrno is called with, by the name of their
\* constant: those errnoFromSyscall has a case for and three it has none for.
SyscallErrnos == Errnos \cup {"EACCES", "EAGAIN", "ENOMEM"}

\* The errors of package fs the switch of ToErrno asks for.
FsErrors == {"ErrInvalid", "ErrPermission", "ErrExist", "ErrNotExist", "ErrClosed"}

\* The error values: nil, a syscall.Errno, an fs.ErrXXX, an error made by
\* errors.New, a nil *os.PathError held in an error, and an *os.PathError or an
\* error of fmt.Errorf("%w") around any of them.
RECURSIVE ErrorValues(_)
ErrorValues(n) ==
  IF n = 0
    THEN {[kind |-> "nil"], [kind |-> "errors.New"], [kind |-> "(*os.PathError)(nil)"]}
         \cup {[kind |-> "syscall.Errno", code |-> c] : c \in SyscallErrnos}
         \cup {[kind |-> "fs", name |-> f] : f \in FsErrors}
  ELSE ErrorValues(n - 1)
       \cup {[kind |-> "*os.PathError", Err |-> e] : e \in ErrorValues(n - 1)}
       \cup {[kind |-> "*fmt.wrapError", Err |-> e] : e \in ErrorValues(n - 1)}

\* syscall.Errno.Is, the method errors.Is calls on a syscall.Errno.
SyscallIs(code, target) ==
  CASE target = "ErrPermission" -> code \in {"EACCES", "EPERM"}
    [] target = "ErrExist" -> code \in {"EEXIST", "ENOTEMPTY"}
    [] target = "ErrNotExist" -> code = "ENOENT"
    [] OTHER -> FALSE

\* errors.Is(err, fs.<target>): err or an error it wraps is the target.  It
\* panics when it unwraps a nil *os.PathError.
RECURSIVE errorsIs(_, _)
errorsIs(err, target) ==
  CASE err.kind = "nil" -> "false"
    [] err.kind = "fs" -> IF err.name = target THEN "true" ELSE "false"
    [] err.kind = "syscall.Errno" -> IF SyscallIs(err.code, target) THEN "true" ELSE "false"
    [] err.kind = "(*os.PathError)(nil)" -> "panic"
    [] err.kind \in {"*os.PathError", "*fmt.wrapError"} -> errorsIs(err.Err, target)
    [] OTHER -> "false"

errnoFromSyscall(errno) ==
  CASE errno = "EBADF" -> "EBADF"
    [] errno = "EEXIST" -> "EEXIST"
    [] errno = "EINVAL" -> "EINVAL"
    [] errno = "EIO" -> "EIO"
    [] errno = "EISDIR" -> "EISDIR"
    [] errno = "ELOOP" -> "ELOOP"
    [] errno = "ENAMETOOLONG" -> "ENAMETOOLONG"
    [] errno = "ENOENT" -> "ENOENT"
    [] errno = "ENOSYS" -> "ENOSYS"
    [] errno = "ENOTDIR" -> "ENOTDIR"
    [] errno = "ENOTEMPTY" -> "ENOTEMPTY"
    [] errno = "ENOTSUP" -> "ENOTSUP"
    [] errno = "EPERM" -> "EPERM"
    [] OTHER -> "EIO"

\* The switch of ToErrno on the errors of package fs, in its order.
ErrnoFromFs(err) ==
  CASE errorsIs(err, "ErrInvalid") # "false" ->
         IF errorsIs(err, "ErrInvalid") = "panic" THEN "panic" ELSE "EINVAL"
    [] errorsIs(err, "ErrPermission") = "true" -> "EPERM"
    [] errorsIs(err, "ErrExist") = "true" -> "EEXIST"
    [] errorsIs(err, "ErrNotExist") = "true" -> "ENOENT"
    [] errorsIs(err, "ErrClosed") = "true" -> "EBADF"
    [] OTHER -> "EIO"

\* ToErrno: the code of the *Errno it returns, or "panic".
ToErrno(err) ==
  IF err.kind = "(*os.PathError)(nil)" THEN "panic"
  ELSE LET unwrapped == IF err.kind = "*os.PathError" THEN err.Err ELSE err
       IN IF unwrapped.kind = "syscall.Errno" THEN errnoFromSyscall(unwrapped.code)
          ELSE ErrnoFromFs(unwrapped)

GojsInit ==
  /\ NewCompiler(Scenario(0, <<>>))
  /\ NoEngine
  /\ gojsErr \in ErrorValues(MaxWrap)
  /\ gojsPc = "called"
  /\ gojsErrno = ""
  /\ NoFs

\* ToErrno returns, or panics.
ToErrnoReturns ==
  /\ gojsPc = "called"
  /\ ToErrno(gojsErr) # "panic"
  /\ gojsErrno' = ToErrno(gojsErr)
  /\ gojsPc' = "returned"
  /\ UNCHANGED <<gojsErr, fsVars, loweringVars, engineVars>>

ToErrnoPanics ==
  /\ gojsPc = "called"
  /\ ToErrno(gojsErr) = "panic"
  /\ gojsPc' = "panicked"
  /\ UNCHANGED <<gojsErr, gojsErrno, fsVars, loweringVars, engineVars>>

GojsNext == ToErrnoReturns \/ ToErrnoPanics

GojsSpec == GojsInit /\ [][GojsNext]_vars

\* ------------------------------------------------------------ gojs fs
\* The functions of the jsfs object of GOOS=js: each works on the FSContext of
\* the module (its open files) and hands an error and a result to its callback.

\* How many file descriptors the FSContext hands out.
MaxOpened == 4

\* The paths the functions are called with: a directory, a regular file, a
\* file that can be read but not sought, a file whose Stat fails, and a path
\* under which there is nothing.
FsPaths == {"dir", "file", "pipe", "locked", "missing"}
\* The files that were opened, in this order, before the calls that follow.
OpenedBefore == {<<>>, <<"file">>, <<"pipe", "dir">>}

\* fs.File.Stat: its error, and IsDir of the fs.FileInfo it returns.
StatErr(file) == IF file = "locked" THEN "EIO" ELSE NilError
IsDir(file) == file = "dir"
\* The files that are an fs.ReadDirFile, what its ReadDir(-1) fails with, and
\* the names of the entries it returns.
IsReadDirFile(file) == file \in {"dir", "file"}
ReadDirErr(file) == IF file = "dir" THEN NilError ELSE "ENOTDIR"
ReadDirNames(file) == <<"a", "b">>
\* The files that are an io.Seeker, and what Seek and Read may return.
IsSeeker(file) == file \in {"dir", "file", "locked"}
SeekErrors == {NilError, "EINVAL"}
ReadResults == {[nRead |-> 2, e |-> NilError], [nRead |-> 1, e |-> "EOF"],
                [nRead |-> 0, e |-> "EOF"], [nRead |-> 0, e |-> "EIO"]}
\* The offset argument of read: nil, or a number.
NilOffset == <<>>
Offsets == {NilOffset, <<0>>}
\* The io.Reader that is nil.
NilReader == "nil"

\* The FSContext of the module.
FS == [openedFiles |-> openedFiles, lastFD |-> lastFD]

\* FSContext.OpenFile: a path that exists is opened under the descriptor after
\* the last one.
OpenFile(fsc, name) ==
  IF name = "missing"
    THEN [fd |-> 0, err |-> "ENOENT", fsc |-> fsc]
  ELSE [fd |-> fsc.lastFD + 1, err |-> NilError,
        fsc |-> [openedFiles |-> (fsc.lastFD + 1 :> name) @@ fsc.openedFiles,
                 lastFD |-> fsc.lastFD + 1]]

\* FSContext.CloseFile: false when the descriptor is not open.
CloseFile(fsc, fd) ==
  IF fd \notin DOMAIN fsc.openedFiles
    THEN [ok |-> FALSE, fsc |-> fsc]
  ELSE [ok |-> TRUE,
        fsc |-> [fsc EXCEPT !.openedFiles =
                   [d \in DOMAIN fsc.openedFiles \ {fd} |-> fsc.openedFiles[d]]]]

\* FSContext.OpenedFile: the file of an open descriptor.
OpenedFile(fsc, fd) ==
  IF fd \in DOMAIN fsc.openedFiles
    THEN [ok |-> TRUE, File |-> fsc.openedFiles[fd]]
  ELSE [ok |-> FALSE, File |-> NilReader]

\* FSContext.FdReader: the file of an open descriptor, or nil.
FdReader(fsc, fd) ==
  IF fd \in DOMAIN fsc.openedFiles THEN fsc.openedFiles[fd] ELSE NilReader

\* What a function hands to its callback: the error, the result, whether it
\* panicked instead, and the calls it made on the reader.
Out(err, ret) == [err |-> err, ret |-> ret, panicked |-> FALSE, Seek |-> FALSE, Read |-> FALSE]

syscallFstat(fsc, fd) ==
  LET f == OpenedFile(fsc, fd)
  IN IF ~f.ok THEN Out("EBADF", "nil")
     ELSE IF StatErr(f.File) # NilError THEN Out(StatErr(f.File), "nil")
     ELSE Out(NilError, [isDir |-> IsDir(f.File)])

\* syscallStat: the file is opened, and closed when syscallFstat has returned.
syscallStat(fsc, name) ==
  LET o == OpenFile(fsc, name)
  IN IF o.err # NilError
       THEN [out |-> Out(o.err, "nil"), fsc |-> o.fsc]
     ELSE [out |-> syscallFstat(o.fsc, o.fd), fsc |-> CloseFile(o.fsc, o.fd).fsc]

syscallClose(fsc, fd) ==
  LET c == CloseFile(fsc, fd)
  IN [out |-> Out(IF ~c.ok THEN "EBADF" ELSE NilError, "true"), fsc |-> c.fsc]

\* syscallRead: n is the result.  The error of a missing reader is set and the
\* function goes on: r.(io.Seeker) is false of the nil reader, and r.Read(p)
\* on it is a nil dereference.
syscallRead(fsc, fd, offset, seekErr, read) ==
  LET r == FdReader(fsc, fd)
      err == IF r = NilReader THEN "EBADF" ELSE NilError
      sought == offset # NilOffset
      reads == IF r = NilReader
                 THEN [Out(err, 0) EXCEPT !.panicked = TRUE, !.Seek = sought, !.Read = TRUE]
               ELSE IF read.e = NilError \/ read.e = "EOF"
                 THEN [Out(err, read.nRead) EXCEPT !.Seek = sought, !.Read = TRUE]
               ELSE [Out(read.e, 0) EXCEPT !.Seek = sought, !.Read = TRUE]
  IN IF offset # NilOffset
       THEN IF r # NilReader /\ IsSeeker(r)
              THEN IF seekErr # NilError
                     THEN [Out(seekErr, 0) EXCEPT !.Seek = TRUE]
                   ELSE reads
            ELSE Out("ENOTSUP", 0)
     ELSE reads

\* syscallReaddir: the file is opened, and closed when the function returns.
syscallReaddir(fsc, name) ==
  LET o == OpenFile(fsc, name)
  IN IF o.err # NilError
       THEN [out |-> Out(o.err, "nil"), fsc |-> o.fsc]
     ELSE LET f == OpenedFile(o.fsc, o.fd)
              closed == CloseFile(o.fsc, o.fd).fsc
          IN IF ~f.ok THEN [out |-> Out("EBADF", "nil"), fsc |-> closed]
             ELSE IF ~IsReadDirFile(f.File) THEN [out |-> Out("ENOTDIR", "nil"), fsc |-> closed]
             ELSE IF ReadDirErr(f.File) # NilError
               THEN [out |-> Out(ReadDirErr(f.File), "nil"), fsc |-> closed]
             ELSE [out |-> Out(NilError, ReadDirNames(f.File)), fsc |-> closed]

\* chdir.invoke: the path is opened; the file is closed where Stat fails and
\* where it is not a directory.
chdirInvoke(fsc, dir, path) ==
  LET o == OpenFile(fsc, path)
  IN IF o.err # NilError
       THEN [out |-> Out("ENOENT", "nil"), fsc |-> o.fsc, cwd |-> dir]
     ELSE LET f == OpenedFile(o.fsc, o.fd)
          IN IF ~f.ok THEN [out |-> Out("ENOENT", "nil"), fsc |-> o.fsc, cwd |-> dir]
             ELSE IF StatErr(f.File) # NilError
               THEN [out |-> Out("ENOENT", "nil"), fsc |-> CloseFile(o.fsc, o.fd).fsc, cwd |-> dir]
             ELSE IF ~IsDir(f.File)
               THEN [out |-> Out("ENOTDIR", "nil"), fsc |-> CloseFile(o.fsc, o.fd).fsc, cwd |-> dir]
             ELSE [out |-> Out(NilError, "nil"), fsc |-> o.fsc, cwd |-> path]

\* The module after jsfsOpen has opened some files.
FsInit ==
  /\ NewCompiler(Scenario(0, <<>>))
  /\ NoEngine
  /\ gojsErr = <<>>
  /\ gojsPc = "none"
  /\ gojsErrno = ""
  /\ \E files \in OpenedBefore :
       /\ openedFiles = [fd \in 1..Len(files) |-> files[fd]]
       /\ lastFD = Len(files)
  /\ cwd = "/"
  /\ fsCall = <<>>

\* The call of fn with args has handed out to the callback and left the
\* FSContext fsc.
Invoked(fn, args, out, fsc) ==
  /\ fsCall' = [fn |-> fn, args |-> args, out |-> out]
  /\ openedFiles' = fsc.openedFiles
  /\ lastFD' = fsc.lastFD
  /\ UNCHANGED <<gojsErr, gojsPc, gojsErrno, loweringVars, engineVars>>

jsfsStat ==
  /\ lastFD < MaxOpened
  /\ \E name \in FsPaths :
       LET r == syscallStat(FS, name)
       IN Invoked("syscallStat", <<name>>, r.out, r.fsc)
  /\ UNCHANGED cwd

jsfsFstat ==
  /\ \E fd \in 1..MaxOpened :
       Invoked("syscallFstat", <<fd>>, syscallFstat(FS, fd), FS)
  /\ UNCHANGED cwd

jsfsClose ==
  /\ \E fd \in 1..MaxOpened :
       LET r == syscallClose(FS, fd)
       IN Invoked("syscallClose", <<fd>>, r.out, r.fsc)
  /\ UNCHANGED cwd

jsfsRead ==
  /\ \E fd \in 1..MaxOpened, offset \in Offsets, seekErr \in SeekErrors, read \in ReadResults :
       Invoked("syscallRead", <<fd, offset, read>>, syscallRead(FS, fd, offset, seekErr, read), FS)
  /\ UNCHANGED cwd

jsfsReaddir ==
  /\ lastFD < MaxOpened
  /\ \E name \in FsPaths :
       LET r == syscallReaddir(FS, name)
       IN Invoked("syscallReaddir", <<name>>, r.out, r.fsc)
  /\ UNCHANGED cwd

chdir ==
  /\ lastFD < MaxOpened
  /\ \E path \in FsPaths :
       LET r == chdirInvoke(FS, cwd, path)
       IN /\ Invoked("chdir", <<path>>, r.out, r.fsc)
          /\ cwd' = r.cwd

FsNext ==
  \/ jsfsStat \/ jsfsFstat \/ jsfsClose \/ jsfsRead \/ jsfsReaddir \/ chdir

FsSpec == FsInit /\ [][FsNext]_vars

\* ------------------------------------------------------------ properties
\* The iteration that has just run (last) met an instruction of the body at its
\* first byte, and lowerOpcode returned from it.
Lowered(ops) == last.aligned /\ last.op \in ops
\* The instructions of every block, as the iteration found them and as it left them.
InstrsOf(bs) == [k \in 1..Len(bs) |-> bs[k].instrs]

\* C1: while unreachable, an opcode other than block, loop, if, else and end (drop,
\* return, unreachable, the constants, call, br, br_if, the loads, ...) inserts no
\* instruction and leaves the value stack as it was.
DeadCodeEmitsNothing ==
  (Lowered(SupportedOps \ ControlOps) /\ last.pre.unreachable)
    => /\ panicked = ""
       /\ InstrsOf(blocks) = InstrsOf(last.pre.blocks)
       /\ values = last.pre.values

\* C2: one iteration of lowerBody moves pc over the opcode and its encoded
\* immediates, for every supported opcode, reachable or not.
PcAdvancesOverImmediates ==
  (Lowered(SupportedOps) /\ panicked = "")
    => pc = last.pre.pc + 1 + Len(last.ins.imm)

\* The following blocks of the frames that the open constructs pushed, the
\* function's first.
RECURSIVE FramesOfOpen(_)
FramesOfOpen(ctrls) ==
  IF ctrls = <<>> THEN <<>>
  ELSE FramesOfOpen(Front(ctrls)) \o
       (IF Last(ctrls).frame = NoBlock THEN <<>> ELSE <<Last(ctrls).frame>>)

\* C3: controlFrames holds the Function frame and one frame per open construct that
\* was opened while reachable, every end pops the frame of its own opener (none when
\* the opener was met while unreachable), and ctrlPop never runs on an empty stack.
FramesMatchOpenConstructs ==
  /\ (Lowering /\ pc = Len(wasmFunctionBody) /\ ~validator.done)
       => [i \in 1..Len(controlFrames) |-> controlFrames[i].followingBlock]
            = FramesOfOpen(validator.ctrls)
  /\ Lowered({OpcodeEnd}) => last.pre.controlFrames # <<>>

\* C4: the only change an iteration makes to a frame that stays on the stack is
\* kind IfWithoutElse -> IfWithElse, made by the else of that frame's own if; the
\* else of an if opened while unreachable changes no field of any frame.
OnlyOwnElseChangesFrame ==
  (last.aligned /\ panicked = "")
    => \A i \in 1..Min(Len(controlFrames), Len(last.pre.controlFrames)) :
         \/ controlFrames[i] = last.pre.controlFrames[i]
         \/ /\ last.op = OpcodeElse
            /\ last.construct.frame = controlFrames[i].followingBlock
            /\ i = Len(controlFrames)
            /\ last.pre.controlFrames[i].kind = controlFrameKindIfWithoutElse
            /\ controlFrames[i] =
                 [last.pre.controlFrames[i] EXCEPT !.kind = controlFrameKindIfWithElse]

\* C5: the header of a loop opened while reachable is sealed exactly once, by the
\* end of that loop: not while the loop is open, and once when its end has run.
LoopHeaderSealedAtEnd ==
  /\ Lowering =>
       \A i \in 1..Len(validator.ctrls) :
         validator.ctrls[i].hdr # NoBlock => blocks[validator.ctrls[i].hdr].sealed = 0
  /\ (Lowered({OpcodeEnd}) /\ last.construct.hdr # NoBlock /\ panicked = "")
       => blocks[last.construct.hdr].sealed = 1

\* C6: when lowerBody has finished a validated body, every block the frontend
\* allocated (following blocks, loop headers, then and else blocks, the fall-through
\* blocks of br_if) is sealed.
AllBlocksSealedAtFinish ==
  Finished => \A k \in (1..Len(blocks)) \ {entryBlk, ReturnBlock} : blocks[k].sealed > 0

\* The arguments a branch passes to its target: brz and brnz carry their condition
\* first.
BranchArgs(i) == IF i.op = "Jump" THEN Len(i.args) ELSE Len(i.args) - 1

\* C7: every jump, brz and brnz passes as many arguments as its target block has
\* parameters, the jump from the else block at the end of an if without else
\* included.
BranchArgsMatchParams ==
  \A k \in 1..Len(blocks) : \A j \in 1..Len(blocks[k].instrs) :
    blocks[k].instrs[j].op \in BranchOps
      => BranchArgs(blocks[k].instrs[j]) = Len(blocks[blocks[k].instrs[j].blk].params)

\* C8: after the end of a block, loop or if that is reachable where it closes, the
\* value stack is originalStackLenWithoutParam + |results| long and its top values
\* are the parameters of the construct's following block.
StackAfterEnd ==
  (Lowered({OpcodeEnd}) /\ last.construct.kind \in {"block", "loop", "if", "else"}
     /\ last.construct.frame # NoBlock /\ ~last.pre.unreachable /\ panicked = "")
    => /\ Len(values) = last.construct.orig + Len(last.construct.bt.Results)
       /\ Drop(values, last.construct.orig) = blocks[last.construct.frame].params

\* base + offset + w in 64 bits, which no u32 base and offset overflow.
Need(base, offset, w) ==
  AddWrap(AddWrap(ZeroExt(base, 64), ZeroExt(offset, 64)), BitsOf(w, 64))

\* C9: the instructions of a load reach the memory access exactly when
\* zeroext64(base) + offset + w <= memLen, and exit with ExitCodeMemoryOutOfBounds
\* exactly when that sum is greater than memLen.
BoundsCheckGuardsLoad ==
  exec # <<>>
    => /\ exec.ran.loaded
           <=> GeU(ZeroExt(exec.memLen, 64), Need(exec.base, exec.offset, LoadWidth(last.op)))
       /\ exec.ran.exited
           <=> ~GeU(ZeroExt(exec.memLen, 64), Need(exec.base, exec.offset, LoadWidth(last.op)))

\* C10: the constant a load emits for ceil is offset + w as a number, with no wrap
\* modulo 2^32 (offset 0xFFFFFFFF and w 4 give 0x100000003).
CeilDoesNotWrap ==
  (Lowered(LoadOps) /\ ~last.pre.unreachable /\ panicked = "")
    => Emitted[1].imm = Need(Zeros(32), Last(Emitted).imm, LoadWidth(last.op))

\* The type of the callee of the call just lowered, and the call instruction it
\* inserted.
CalleeType == TypeSection[FunctionSection[last.ins.x + 1] + 1]
CallInstr == CHOOSE i \in {Emitted[j] : j \in 1..Len(Emitted)} : i.op \in {"Call", "CallIndirect"}

\* C11: a reachable call whose callee has P parameters and R results removes the
\* top P values and pushes exactly the R results of the call in order (nothing for
\* R = 0), so len(values) changes by R - P.
CallPushesItsResults ==
  (Lowered({OpcodeCall}) /\ ~last.pre.unreachable /\ panicked = "")
    => values = Take(last.pre.values, Len(last.pre.values) - Len(CalleeType.Params))
                  \o CallInstr.rets

\* The position of the last call in the current block before the instruction just
\* lowered (0 when the block has none).
CallsBefore ==
  {j \in 1..Len(last.pre.blocks[currentBlock].instrs) :
     last.pre.blocks[currentBlock].instrs[j].op \in {"Call", "CallIndirect"}}
LastCallAt == IF CallsBefore = {} THEN 0 ELSE CHOOSE j \in CallsBefore : \A k \in CallsBefore : k <= j
\* Value v is the result of a load of the module context field aux that the current
\* block holds after that call.
LoadedAfterCall(v, aux) ==
  \E j \in (LastCallAt + 1)..Len(blocks[currentBlock].instrs) :
    /\ blocks[currentBlock].instrs[j].aux = aux
    /\ blocks[currentBlock].instrs[j].rets = <<v>>
\* The memory length and memory base the load just lowered uses: the left operand
\* of its compare and of its address computation.
UsedMemLen == (CHOOSE i \in {Emitted[j] : j \in 1..Len(Emitted)} : i.op = "Icmp").args[1]
UsedMemBase == Emitted[Len(Emitted) - 1].args[1]

\* C12: a memory access lowered after a call (here: in the block of the call) uses
\* a memory base and a memory length loaded after that call, never values loaded
\* before it.
MemoryReloadedAfterCall ==
  (Lowered(LoadOps) /\ ~last.pre.unreachable /\ panicked = "" /\ LastCallAt > 0)
    => /\ LoadedAfterCall(UsedMemLen, "LocalMemoryLen")
       /\ LoadedAfterCall(UsedMemBase, "LocalMemoryBase")

\* C13: an if opened while reachable saves as clonedArgs exactly the |T.params|
\* values on top of the stack once the condition is popped, and after its else the
\* stack is originalStackLenWithoutParam + |T.params| long and ends with those
\* values, as at the start of the then branch.
ClonedArgsAreTheParams ==
  /\ (Lowered({OpcodeIf}) /\ ~last.pre.unreachable /\ panicked = "")
       => Last(controlFrames).clonedArgs
            = Drop(values, Len(values) - Len(last.ins.bt.Params))
  /\ (Lowered({OpcodeElse}) /\ last.construct.kind = "if" /\ last.construct.frame # NoBlock
        /\ panicked = "")
       => /\ Len(values) = last.construct.orig + Len(last.construct.bt.Params)
          /\ Drop(values, last.construct.orig) = Last(last.pre.controlFrames).clonedArgs

\* The frame a reachable br / br_if with label L names: depth L of the control
\* stack before the instruction (0 is the innermost frame).
LabelFrame == last.pre.controlFrames[Len(last.pre.controlFrames) - last.ins.x]
LabelBlock ==
  IF LabelFrame.kind = controlFrameKindLoop THEN LabelFrame.blk ELSE LabelFrame.followingBlock
LabelArity ==
  IF LabelFrame.kind = controlFrameKindLoop
    THEN Len(LabelFrame.blockType.Params) ELSE Len(LabelFrame.blockType.Results)

\* C14: a reachable br L resolves the frame at depth L and inserts exactly one
\* jump, to the loop header with the top |params| values when the frame is a loop
\* and to the following block with the top |results| values otherwise; the value
\* stack is left as it was (the arguments are copied) and unreachable becomes true.
BrJumpsToLabel ==
  (Lowered({OpcodeBr}) /\ ~last.pre.unreachable)
    => /\ panicked = ""
       /\ Emitted = <<Instr("Jump", Drop(last.pre.values, Len(last.pre.values) - LabelArity),
                            LabelBlock, <<>>, "", <<>>)>>
       /\ values = last.pre.values
       /\ unreachable

\* The instructions the last step added to the block that was current before it.
EmittedBefore ==
  Drop(blocks[last.pre.cur].instrs, Len(last.pre.blocks[last.pre.cur].instrs))
FallThrough == Len(last.pre.blocks) + 1

\* C15: a reachable br_if L pops exactly the condition, inserts a br_if_nonzero
\* to the target chosen as for br with the peeked arguments, then a jump to a
\* freshly allocated fall-through block, which becomes the current block;
\* unreachable stays false and the stack below the condition is unchanged.
BrIfFallsThrough ==
  (Lowered({OpcodeBrIf}) /\ ~last.pre.unreachable)
    => /\ panicked = ""
       /\ values = Front(last.pre.values)
       /\ Len(blocks) = FallThrough
       /\ EmittedBefore =
            <<Instr("Brnz", <<Last(last.pre.values)>> \o Drop(values, Len(values) - LabelArity),
                    LabelBlock, <<>>, "", <<>>),
              Instr("Jump", <<>>, FallThrough, <<>>, "", <<>>)>>
       /\ currentBlock = FallThrough
       /\ ~unreachable

BinaryInstr ==
  IF last.op \in ArithOps THEN BinaryIR[last.op]
  ELSE IF last.op \in IcmpOps THEN "Icmp" ELSE "Fcmp"

\* C16: for every binary arithmetic, shift and comparison opcode lowered while
\* reachable, the top of the stack is the right operand y and the value below it
\* the left operand x; exactly one instruction op(x, y) is inserted and exactly
\* its single result is pushed, so the stack becomes one value shorter.
BinaryPopsTwoPushesOne ==
  (Lowered(BinaryOps) /\ ~last.pre.unreachable)
    => /\ panicked = ""
       /\ Len(Emitted) = 1
       /\ Emitted[1].op = BinaryInstr
       /\ Emitted[1].args = Drop(last.pre.values, Len(last.pre.values) - 2)
       /\ Len(Emitted[1].rets) = 1
       /\ values = Take(last.pre.values, Len(last.pre.values) - 2) \o Emitted[1].rets

\* C17: an end lowered while unreachable with unreachableDepth > 0 decrements
\* unreachableDepth by exactly one, keeps unreachable true, inserts no
\* instruction, seals no block, and changes neither the current block nor the
\* value stack.
DeadEndOnlyDecrements ==
  (Lowered({OpcodeEnd}) /\ last.pre.unreachable /\ last.pre.unreachableDepth > 0)
    => /\ panicked = ""
       /\ unreachableDepth = last.pre.unreachableDepth - 1
       /\ unreachable
       /\ blocks = last.pre.blocks
       /\ currentBlock = last.pre.cur
       /\ values = last.pre.values

\* The frame the end case popped, and whether the case went on to switchTo: the
\* frame is not the function's and the end did not return on unreachableDepth > 0.
PoppedFrame == Last(last.pre.controlFrames)
EndSwitched ==
  /\ Lowered({OpcodeEnd})
  /\ panicked = ""
  /\ last.pre.controlFrames # <<>>
  /\ PoppedFrame.kind # controlFrameKindFunction
  /\ ~(last.pre.unreachable /\ last.pre.unreachableDepth > 0)

\* C18: right after the end of a block, loop or if whose frame was popped and
\* switched from, unreachable is true exactly when the frame's following block
\* has no predecessor; after the end of an if without else the state is always
\* reachable, and after an if with else whose following block nothing branches
\* to (both branches ended unreachable, no br targets it) it is unreachable.
UnreachableAfterEnd ==
  /\ EndSwitched => (unreachable <=> Len(blocks[PoppedFrame.followingBlock].preds) = 0)
  /\ (EndSwitched /\ last.construct.kind = "if" /\ last.construct.frame # NoBlock)
       => ~unreachable
  /\ (EndSwitched /\ last.construct.kind = "else" /\ last.construct.frame # NoBlock
        /\ Len(blocks[last.construct.frame].preds) = 0)
       => unreachable

\* unreachable; i32.const 5; i32.const 7; i32.add; end
UnreachableRegion == <<0, 65, 5, 65, 7, 106, 11>>
\* The instructions the lowering has inserted into block k since Init.
InsertedIn(k) ==
  IF k = entryBlk /\ TypeSection[wasmFunctionTyp + 1].Params = <<>>
    THEN Tail(blocks[k].instrs) ELSE blocks[k].instrs

\* C19: lowering unreachable; i32.const 5; i32.const 7; i32.add; end emits
\* exactly one trap tagged Unreachable and a jump to the return block, and no
\* constant and no add.
UnreachableRegionEmitsTrapAndJump ==
  (wasmFunctionBody = UnreachableRegion /\ pc = Len(wasmFunctionBody))
    => /\ panicked = ""
       /\ InsertedIn(entryBlk) =
            <<Instr("ExitWithCode", <<execCtxPtrValue>>, NoBlock, <<>>, "ExitCodeUnreachable", <<>>),
              Instr("Jump", <<>>, ReturnBlock, <<>>, "", <<>>)>>
       /\ \A k \in 1..Len(blocks) : k # entryBlk => InsertedIn(k) = <<>>

\* i32.const 0; loop (param i32) (result i32); i32.const 1; i32.add; local.tee 0;
\* i32.const 10; i32.lt_s; br_if 0; end; end
CountedLoop == <<65, 0, 3, 1, 65, 1, 106, 34, 0, 65, 10, 72, 13, 0, 11, 11>>
\* The loop header and the block after the loop: the first two blocks lowerLoop allocates.
CountedLoopHeader == ReturnBlock + 1
CountedLoopAfter == ReturnBlock + 2
BackEdges ==
  {i \in UNION {{blocks[k].instrs[j] : j \in 1..Len(blocks[k].instrs)} : k \in 1..Len(blocks)} :
     i.op = "Brnz" /\ i.blk = CountedLoopHeader}

\* C20: the counted loop is lowered without error and yields a loop header with
\* one i32 parameter, a br_if_nonzero back-edge that carries the updated counter,
\* an after-loop block that receives the final counter, and a header sealed only
\* at the end of the loop.
CountedLoopLowers ==
  /\ (wasmFunctionTyp = 2 /\ Len(wasmFunctionBody) <= Len(CountedLoop)
        /\ wasmFunctionBody = Take(CountedLoop, Len(wasmFunctionBody)))
       => panicked = ""
  /\ (wasmFunctionTyp = 2 /\ wasmFunctionBody = CountedLoop /\ pc >= 14)
       => /\ Len(blocks[CountedLoopHeader].params) = 1
          /\ \E i \in BackEdges : Len(i.args) = 2
          /\ blocks[CountedLoopHeader].sealed = (IF pc >= 15 THEN 1 ELSE 0)
          /\ (pc >= 15 => /\ Len(blocks[CountedLoopAfter].params) = 1
                          /\ blocks[CountedLoopAfter].preds # <<>>)

\* C21: a reachable return inserts exactly one return instruction whose operands
\* are the top R values of the stack in stack order, R the number of results of
\* the function; it leaves the value stack and the control frames unchanged and
\* sets unreachable.
ReturnCarriesResults ==
  (Lowered({OpcodeReturn}) /\ ~last.pre.unreachable)
    => /\ panicked = ""
       /\ Emitted = <<Instr("Return",
                            Drop(last.pre.values,
                                 Len(last.pre.values) - Len(TypeSection[wasmFunctionTyp + 1].Results)),
                            NoBlock, <<>>, "", <<>>)>>
       /\ values = last.pre.values
       /\ controlFrames = last.pre.controlFrames
       /\ unreachable

\* The argument list of a call instruction (an indirect call has the function
\* pointer in front of it), and the positions of the last step's instructions.
CallArgs(i) == IF i.op = "CallIndirect" THEN Tail(i.args) ELSE i.args
EmittedAt(ops) == {j \in 1..Len(Emitted) : Emitted[j].op \in ops}
CallerStores ==
  {j \in EmittedAt({"Store"}) : /\ Emitted[j].aux = "CallerModuleContextPtr"
                                /\ Emitted[j].args = <<moduleCtxPtrValue, execCtxPtrValue>>}

\* C22: for every reachable call the store of moduleCtxPtr into
\* execCtx.callerModuleContextPtr is inserted before the call instruction in the
\* same block, and the call's arguments are execCtxPtr, the callee's module
\* context pointer, and then the P popped values, the deepest first.
CallStoresCallerFirst ==
  (Lowered({OpcodeCall}) /\ ~last.pre.unreachable)
    => /\ panicked = ""
       /\ \E k \in EmittedAt({"Call", "CallIndirect"}) :
            /\ \E j \in CallerStores : j < k
            /\ Len(CallArgs(Emitted[k])) = Len(CalleeType.Params) + 2
            /\ CallArgs(Emitted[k])[1] = execCtxPtrValue
            /\ Drop(CallArgs(Emitted[k]), 2)
                 = Drop(last.pre.values, Len(last.pre.values) - Len(CalleeType.Params))

\* The instructions of the last step up to its call instruction.
UpToCall ==
  Take(Emitted, Cardinality({j \in 1..Len(Emitted) :
                              \A k \in EmittedAt({"Call", "CallIndirect"}) : j <= k}))
ImportLoad(i, slot) ==
  /\ i.op = "Load" /\ i.args = <<moduleCtxPtrValue>>
  /\ i.imm = <<last.ins.x>> /\ i.aux = slot /\ Len(i.rets) = 1

\* C23: a reachable call of a function defined in the module inserts a direct
\* call to FuncRef(fnIdx) whose second argument is the module's own context
\* pointer, and no load for it; a reachable call of an imported function inserts
\* the loads of the function pointer and of the callee's module context from the
\* import's slot, then an indirect call through the loaded function pointer whose
\* second argument is the loaded module context.
CallDirectOrThroughImport ==
  (Lowered({OpcodeCall}) /\ ~last.pre.unreachable)
    => /\ panicked = ""
       /\ IF last.ins.x >= ImportFunctionCount
            THEN /\ Len(UpToCall) = 2
                 /\ UpToCall[1].op = "Store"
                 /\ UpToCall[2].op = "Call"
                 /\ UpToCall[2].imm = <<last.ins.x>>
                 /\ CallArgs(UpToCall[2])[2] = moduleCtxPtrValue
            ELSE /\ Len(UpToCall) = 4
                 /\ UpToCall[1].op = "Store"
                 /\ ImportLoad(UpToCall[2], "funcPtr")
                 /\ ImportLoad(UpToCall[3], "moduleCtxPtr")
                 /\ UpToCall[4].op = "CallIndirect"
                 /\ UpToCall[4].args[1] = UpToCall[2].rets[1]
                 /\ CallArgs(UpToCall[4])[2] = UpToCall[3].rets[1]

\* The instructions of the last step without the loads of the memory base and
\* length from the module context.
FromModuleCtx(i) == i.args = <<moduleCtxPtrValue>>
NotFromModuleCtx(i) == ~FromModuleCtx(i)
LoadSequence == SelectSeq(Emitted, NotFromModuleCtx)

\* C24: for every load lowered while reachable the instructions are inserted in
\* this order in the current block: the ceil constant, the zero-extension of the
\* popped base address, the add of extended base and ceil, the unsigned compare
\* against the memory length, the conditional exit tagged
\* ExitCodeMemoryOutOfBounds, the add of memory base and extended base, and last
\* the load; the exit precedes the address computation and the load.
LoadSequenceInOrder ==
  (Lowered(LoadOps) /\ ~last.pre.unreachable)
    => /\ panicked = ""
       /\ currentBlock = last.pre.cur
       /\ Len(LoadSequence) = 7
       /\ LoadSequence[1].op = "Iconst64"
       /\ LoadSequence[2].op = "UExtend"
       /\ LoadSequence[2].args = <<Last(last.pre.values)>>
       /\ LoadSequence[3].op = "Iadd"
       /\ LoadSequence[3].args = LoadSequence[2].rets \o LoadSequence[1].rets
       /\ LoadSequence[4].op = "Icmp"
       /\ LoadSequence[3].rets[1] \in {LoadSequence[4].args[k] : k \in 1..2}
       /\ LoadSequence[5].op = "ExitIfNotZeroWithCode"
       /\ LoadSequence[5].aux = "ExitCodeMemoryOutOfBounds"
       /\ LoadSequence[5].args = <<execCtxPtrValue>> \o LoadSequence[4].rets
       /\ LoadSequence[6].op = "Iadd"
       /\ LoadSequence[6].args[2] = LoadSequence[2].rets[1]
       /\ LoadSequence[7].op = LoadKind(last.op)[1]
       /\ LoadSequence[7].args = LoadSequence[6].rets

\* C25: CallWithStack returns nil only when the exit code is ExitCodeOK, returns
\* ErrRuntimeUnreachable when it is ExitCodeUnreachable and
\* ErrRuntimeOutOfBoundsMemoryAccess when it is ExitCodeMemoryOutOfBounds; Call
\* returns a nil result slice whenever CallWithStack returns an error.
ExitCodeDecidesError ==
  callPc.at = "returned"
    => /\ callReturn.err = NilError => execCtx.exitCode = ExitCodeOK
       /\ execCtx.exitCode = ExitCodeUnreachable => callReturn.err = ErrRuntimeUnreachable
       /\ execCtx.exitCode = ExitCodeMemoryOutOfBounds
            => callReturn.err = ErrRuntimeOutOfBoundsMemoryAccess
       /\ (callPc.fn = "Call" /\ callReturn.err # NilError) => callReturn.results = NilSlice

\* Call has returned after the compiled code, resumed on a larger stack, trapped
\* on an unreachable instruction.
CallFailedAfterGrow ==
  /\ callPc.at = "returned"
  /\ callPc.fn = "Call"
  /\ grows > 0
  /\ execCtx.exitCode = ExitCodeUnreachable
  /\ callReturn = [results |-> NilSlice, err |-> ErrRuntimeUnreachable]
  /\ paramResultSlice.elems # <<>>

\* C26: ToErrno is total: called with any error value it returns one of the
\* thirteen predefined Errno values; a syscall.Errno with a named counterpart
\* gives the Errno of the same code name, an *os.PathError gives the Errno of
\* the error it wraps, and an error with no specific mapping gives ErrnoIo.
ToErrnoTotalAndFaithful ==
  gojsPc \in {"returned", "panicked"}
    => /\ gojsPc = "returned" /\ gojsErrno \in Errnos
       /\ (gojsErr.kind = "syscall.Errno" /\ gojsErr.code \in Errnos)
            => gojsErrno = gojsErr.code
       /\ gojsErr.kind = "*os.PathError" => gojsErrno = ToErrno(gojsErr.Err)
       /\ (\/ gojsErr.kind \in {"nil", "errors.New"}
           \/ gojsErr.kind = "syscall.Errno" /\ gojsErr.code \notin Errnos
           \/ /\ gojsErr.kind = "*fmt.wrapError"
              /\ \A f \in FsErrors : errorsIs(gojsErr, f) = "false")
            => gojsErrno = "EIO"


\* C27: a block lowered while reachable inserts no instruction, leaves the
\* current block and the value stack alone, allocates the following block with
\* one parameter per result of its type, and pushes one Block frame whose
\* originalStackLenWithoutParam is len(values) minus the parameters of the type;
\* a block, loop or if met while unreachable only adds one to unreachableDepth.
BlockOpensFrame ==
  /\ (Lowered({OpcodeBlock}) /\ ~last.pre.unreachable)
       => /\ panicked = ""
          /\ ~unreachable /\ unreachableDepth = last.pre.unreachableDepth
          /\ currentBlock = last.pre.cur
          /\ values = last.pre.values
          /\ blocks = Append(last.pre.blocks,
                             [NewBlock EXCEPT !.params = blocks[FallThrough].params])
          /\ Len(blocks[FallThrough].params) = Len(last.ins.bt.Results)
          /\ controlFrames
               = Append(last.pre.controlFrames,
                        controlFrame(controlFrameKindBlock,
                                     Len(last.pre.values) - Len(last.ins.bt.Params),
                                     NoBlock, FallThrough, last.ins.bt, <<>>))
  /\ (Lowered({OpcodeBlock, OpcodeLoop, OpcodeIf}) /\ last.pre.unreachable)
       => /\ panicked = ""
          /\ unreachableDepth = last.pre.unreachableDepth + 1
          /\ unreachable
          /\ controlFrames = last.pre.controlFrames
          /\ blocks = last.pre.blocks
          /\ currentBlock = last.pre.cur
          /\ values = last.pre.values

BlockWithParamOpened ==
  /\ Lowered({OpcodeBlock}) /\ ~last.pre.unreachable
  /\ last.ins.bt.Params # <<>> /\ last.ins.bt.Results # <<>>
  /\ Len(values) > Len(last.ins.bt.Params)
  /\ Last(controlFrames).originalStackLenWithoutParam = Len(values) - Len(last.ins.bt.Params)


\* The header a reachable loop allocates and the length of the stack under the
\* parameters of the loop.
LoopHeader == Len(last.pre.blocks) + 1
LoopOriginalLen == Len(last.pre.values) - Len(last.ins.bt.Params)

\* C28: a loop lowered while reachable inserts one jump from the current block
\* to the new loop header carrying the values on top of the stack that are its
\* parameters, makes the header the current block, keeps the length of the
\* value stack and replaces those values by the parameters of the header in
\* order, stays reachable, and does not seal the header.
LoopEntersHeader ==
  (Lowered({OpcodeLoop}) /\ ~last.pre.unreachable)
    => /\ panicked = ""
       /\ Len(blocks) = Len(last.pre.blocks) + 2
       /\ \A k \in 1..Len(last.pre.blocks) :
            blocks[k].instrs
              = IF k = last.pre.cur
                  THEN Append(last.pre.blocks[k].instrs,
                              Instr("Jump", Drop(last.pre.values, LoopOriginalLen), LoopHeader,
                                    <<>>, "", <<>>))
                ELSE last.pre.blocks[k].instrs
       /\ blocks[LoopHeader].instrs = <<>> /\ blocks[LoopHeader + 1].instrs = <<>>
       /\ blocks[LoopHeader].preds = <<last.pre.cur>>
       /\ currentBlock = LoopHeader
       /\ Len(values) = Len(last.pre.values)
       /\ Take(values, LoopOriginalLen) = Take(last.pre.values, LoopOriginalLen)
       /\ Drop(values, LoopOriginalLen) = blocks[LoopHeader].params
       /\ Len(blocks[LoopHeader].params) = Len(last.ins.bt.Params)
       /\ ~unreachable
       /\ blocks[LoopHeader].sealed = 0


\* C29: while a validated body is lowered no jump or conditional branch is
\* inserted whose target block has already been sealed: every predecessor edge
\* of a block is added before the block is sealed.
NoBranchToSealedBlock ==
  \A k \in 1..Len(blocks) :
    blocks[k].sealed > 0 => Len(blocks[k].preds) = blocks[k].sealedWith

\* The end of an if without else has sealed the following block with its two
\* edges, from the then branch and from the empty else branch.
SealedAfterItsEdges ==
  /\ Lowered({OpcodeEnd}) /\ panicked = ""
  /\ PoppedFrame.kind = controlFrameKindIfWithoutElse
  /\ currentBlock = PoppedFrame.followingBlock
  /\ blocks[currentBlock].sealed = 1 /\ blocks[currentBlock].sealedWith = 2
  /\ Len(blocks[currentBlock].preds) = 2


\* C30: in every state reached while a body is lowered unreachableDepth is not
\* negative, and unreachable is set whenever unreachableDepth is positive; an
\* iteration clears unreachable only if it lowers an else or an end and begins
\* with unreachableDepth = 0.
DepthCountsDeadOpeners ==
  /\ unreachableDepth >= 0
  /\ unreachableDepth > 0 => unreachable
  /\ (last.op # NoIns.op /\ last.pre.unreachable /\ ~unreachable)
       => /\ last.op \in {OpcodeElse, OpcodeEnd}
          /\ last.pre.unreachableDepth = 0

\* An end in dead code has left a nested construct, and dead code is still being
\* skipped.
NestedDeadEndSkipped ==
  /\ Lowered({OpcodeEnd}) /\ panicked = ""
  /\ last.pre.unreachable /\ last.pre.unreachableDepth > 1
  /\ unreachable /\ unreachableDepth = last.pre.unreachableDepth - 1


\* The lowering state of c, and whether the lowering has panicked.
LoweringStateOf(c) ==
  <<c.values, c.controlFrames, c.pc, c.unreachable, c.unreachableDepth, c.panic>>

\* C31: from any lowering state, one left by an aborted or unreachable-ending
\* lowering included, reset gives the initial state (no values, no frames,
\* pc = 0, reachable, depth 0); a second reset changes nothing; and the lowering
\* of a body after reset goes through the lowering states a fresh state goes
\* through.
ResetGivesFreshState ==
  /\ (last.op = NoIns.op /\ last.pre # <<>> /\ ~validator.started)
       => /\ values = <<>> /\ controlFrames = <<>> /\ pc = 0
          /\ ~unreachable /\ unreachableDepth = 0
          /\ reset(Compiler) = Compiler
  /\ validator.started
       => LoweringStateOf(Compiler)
            = LoweringStateOf(lowerBodyFresh(IF panicked # "" THEN pc + 1 ELSE pc))

\* A body is being lowered again after a reset: the stack holds values, in an
\* allocation that a fresh state would not have yet.
LoweredAgainAfterReset ==
  /\ validator.started /\ ~last.aligned /\ panicked = ""
  /\ 0 < pc /\ pc < Len(wasmFunctionBody)
  /\ values # <<>>
  /\ valuesSpare # lowerBodyFresh(pc).spare


\* C32: on an exit with ExitCodeGrowStack, CallWithStack grows the stack, sets
\* the exit code to ExitCodeOK and only then resumes the compiled code through
\* afterStackGrowEntrypoint at the new stack pointer; when growStack fails it
\* returns that error, does not resume and leaves the exit code as it is.
GrowsResetsThenResumes ==
  [][(callPc.at = "switch" /\ execCtx.exitCode = ExitCodeGrowStack)
       => \/ /\ stack.Len <= callStackCeiling
             /\ callPc'.at = "afterStackGrowEntrypoint"
             /\ stack'.Len > stack.Len
             /\ execCtx'.exitCode = ExitCodeOK
             /\ callPc'.sp = stackTop' - (stackTop - execCtx.stackPointerBeforeGrow)
             /\ callReturn' = callReturn
          \/ /\ stack.Len > callStackCeiling
             /\ callPc'.at = "returned"
             /\ callReturn'.err = ErrRuntimeStackOverflow
             /\ execCtx'.exitCode = ExitCodeGrowStack
             /\ stack' = stack]_vars

\* The compiled code is about to be resumed on its second larger stack, below
\* the bytes it had pushed.
ResumedOnLargerStack ==
  /\ callPc.at = "afterStackGrowEntrypoint"
  /\ grows = 2
  /\ execCtx.exitCode = ExitCodeOK
  /\ callPc.sp < stackTop
  /\ stack.Len > 2 * initialStackSize


GrowStackKeepsUsedRegion ==
  [][(/\ callPc.at = "switch" /\ execCtx.exitCode = ExitCodeGrowStack
      /\ callPc'.at = "afterStackGrowEntrypoint")
       => /\ stackTop' - callPc'.sp = stackTop - execCtx.stackPointerBeforeGrow
          /\ \A i \in 0..(stackTop - execCtx.stackPointerBeforeGrow - 1) :
               stackBytes'[callPc'.sp + i] = stackBytes[execCtx.stackPointerBeforeGrow + i]
          /\ stackTop % 16 = 0 /\ stackTop <= stack.Data + stack.Len - 1
          /\ stackTop' % 16 = 0 /\ stackTop' <= stack'.Data + stack'.Len - 1]_vars

\* The used region has been copied twice, the second time to a stack that does
\* not start at a multiple of 16, and holds the bytes of both exits.
UsedRegionCopiedTwice ==
  /\ callPc.at = "afterStackGrowEntrypoint"
  /\ grows = 2
  /\ stack.Data % 16 # 0
  /\ stackTop - callPc.sp > 16
  /\ stackBytes[callPc.sp] = 200
  /\ stackBytes[stackTop - 1] # 200


\* C35: when every entry into the compiled code ends with an exit, CallWithStack
\* terminates: the compiled code that keeps asking for a larger stack is resumed
\* finitely many times, as the stack at least doubles each time and growStack
\* fails once it is longer than callStackCeiling.
CallWithStackTerminates ==
  (callPc.at = "entrypoint") ~> (callPc.at \in {"returned", "panicked"})

\* The call has ended with a stack overflow, on a stack that its last growth
\* took from at most callStackCeiling to more than it.
OverflowedByDoubling ==
  /\ callPc.at = "returned"
  /\ callReturn.err = ErrRuntimeStackOverflow
  /\ stack.Len > callStackCeiling
  /\ stack.Len < 2 * callStackCeiling
  /\ execCtx.stackGrowRequiredSize = 16
  /\ stackBytes = <<>>


\* C36: syscallRead on a file descriptor that is not open for reading returns
\* n = 0 and EBADF, whether the offset is nil or not, and calls neither Read nor
\* Seek on the reader that is missing; and a read that ends with io.EOF returns
\* a nil error and the number of bytes read.
ReadOfClosedIsEBADF ==
  (fsCall # <<>> /\ fsCall.fn = "syscallRead")
    => /\ FdReader(FS, fsCall.args[1]) = NilReader
            => /\ ~fsCall.out.panicked
               /\ fsCall.out.ret = 0 /\ fsCall.out.err = "EBADF"
               /\ ~fsCall.out.Read /\ ~fsCall.out.Seek
       /\ (fsCall.out.Read /\ ~fsCall.out.panicked /\ fsCall.args[3].e = "EOF")
            => fsCall.out.err = NilError /\ fsCall.out.ret = fsCall.args[3].nRead

\* C37: syscallStat, syscallReaddir and chdir leave the open file descriptors of
\* the FSContext as they were, whether they fail or not; and chdir changes the
\* cwd only to a path that opens and is a directory, and leaves it where it
\* fails.
PathCallsLeaveDescriptors ==
  [][(fsCall' # <<>> /\ fsCall'.fn \in {"syscallStat", "syscallReaddir", "chdir"})
       => /\ openedFiles' = openedFiles
          /\ cwd' # cwd
               => /\ fsCall'.fn = "chdir" /\ cwd' = fsCall'.args[1]
                  /\ OpenFile(FS, cwd').err = NilError /\ IsDir(cwd')
          /\ fsCall'.out.err # NilError => cwd' = cwd]_vars

====
